---- MODULE Spec2Model ----
(***************************************************************************)
(* Navigation-manifest merge and deploy orchestration of                   *)
(* pixeltable-doctools.                                                    *)
(*                                                                         *)
(* Strings are sequences of one-character strings, so that prefix tests,   *)
(* splitting, integer parsing and lexical comparison are computed the way  *)
(* the Python code computes them.  A page path is a sequence of            *)
(* '/'-separated segments, each segment a string.  JSON objects are        *)
(* records; an absent key is an absent field.                              *)
(***************************************************************************)
EXTENDS Integers, Sequences, FiniteSets, TLC

(* ------------------------------------------------------------------ *)
(* Bounds                                                              *)
(* ------------------------------------------------------------------ *)
\* longest dropdown list the DocsJsonUpdater object is driven to
MaxDropdowns == 3
\* number of deploy invocations in one behaviour
MaxDeploys == 3

(* ------------------------------------------------------------------ *)
(* Strings                                                             *)
(* ------------------------------------------------------------------ *)
\* the characters used, in ASCII order
CharOrder ==
    <<"+", "-", ".", "/", "0", "1", "2", "3", "4", "5", "6", "7", "8", "9",
      "a", "b", "c", "d", "e", "f", "l", "r", "s", "t", "v", "x">>

Ord(c) == CHOOSE i \in 1..Len(CharOrder) : CharOrder[i] = c

Digits == {"0", "1", "2", "3", "4", "5", "6", "7", "8", "9"}

DigitVal(c) == Ord(c) - Ord("0")

\* s[i:] (1-based i)
Drop(s, i) == SubSeq(s, i, Len(s))

\* s[:n]
Take(s, n) == SubSeq(s, 1, IF n < Len(s) THEN n ELSE Len(s))

\* str.startswith
StartsWith(s, p) == Len(p) <= Len(s) /\ SubSeq(s, 1, Len(p)) = p

\* Python's < on str (code-point order, a proper prefix is smaller)
RECURSIVE StrLess(_, _)
StrLess(a, b) ==
    IF b = <<>> THEN FALSE
    ELSE IF a = <<>> THEN TRUE
    ELSE IF a[1] # b[1] THEN Ord(a[1]) < Ord(b[1])
    ELSE StrLess(Tail(a), Tail(b))

\* str.split(sep) for a one-character separator
RECURSIVE SplitAcc(_, _, _)
SplitAcc(s, sep, cur) ==
    IF s = <<>> THEN <<cur>>
    ELSE IF s[1] = sep THEN <<cur>> \o SplitAcc(Tail(s), sep, <<>>)
    ELSE SplitAcc(Tail(s), sep, Append(cur, s[1]))

Split(s, sep) == SplitAcc(s, sep, <<>>)

\* sep.join(parts)
RECURSIVE Join(_, _)
Join(parts, sep) ==
    IF parts = <<>> THEN <<>>
    ELSE IF Len(parts) = 1 THEN parts[1]
    ELSE parts[1] \o <<sep>> \o Join(Tail(parts), sep)

\* int(x) succeeds: an optional sign followed by one or more digits
IsInt(x) ==
    LET body == IF x # <<>> /\ x[1] \in {"+", "-"} THEN Tail(x) ELSE x
    IN  body # <<>> /\ \A i \in 1..Len(body) : body[i] \in Digits

RECURSIVE NatVal(_, _)
NatVal(x, acc) ==
    IF x = <<>> THEN acc ELSE NatVal(Tail(x), 10 * acc + DigitVal(x[1]))

\* int(x)
ToInt(x) ==
    IF x[1] = "-" THEN 0 - NatVal(Tail(x), 0)
    ELSE IF x[1] = "+" THEN NatVal(Tail(x), 0)
    ELSE NatVal(x, 0)

\* str(n) for n >= 0
RECURSIVE ToStr(_)
ToStr(n) ==
    IF n < 10 THEN <<CharOrder[Ord("0") + n]>>
    ELSE ToStr(n \div 10) \o <<CharOrder[Ord("0") + (n % 10)]>>

\* number of leading digits of s
RECURSIVE DigitRun(_)
DigitRun(s) ==
    IF s # <<>> /\ s[1] \in Digits THEN 1 + DigitRun(Tail(s)) ELSE 0

\* re.match(r'(v\d+\.\d+)', s): length of the match, 0 when there is none
VersionMatchLen(s) ==
    IF s = <<>> \/ s[1] # "v" THEN 0
    ELSE LET n1 == DigitRun(Drop(s, 2))
         IN  IF n1 = 0 \/ Len(s) < n1 + 2 \/ s[n1 + 2] # "." THEN 0
             ELSE LET n2 == DigitRun(Drop(s, n1 + 3))
                  IN  IF n2 = 0 THEN 0 ELSE 1 + n1 + 1 + n2

\* str.replace(old, new) on a path, old and new being runs of whole
\* segments followed by '/': an occurrence needs a segment after it
RECURSIVE ReplaceSegs(_, _, _)
ReplaceSegs(path, old, new) ==
    IF path = <<>> THEN <<>>
    ELSE IF Len(path) > Len(old) /\ SubSeq(path, 1, Len(old)) = old
         THEN new \o ReplaceSegs(Drop(path, Len(old) + 1), old, new)
         ELSE <<path[1]>> \o ReplaceSegs(Tail(path), old, new)

(* ------------------------------------------------------------------ *)
(* Names                                                               *)
(* ------------------------------------------------------------------ *)
latest == <<"l", "a", "t", "e", "s", "t">>
sdk == <<"s", "d", "k">>
v0_3 == <<"v", "0", ".", "3">>
v0_10 == <<"v", "0", ".", "1", "0">>
v0_3_14 == <<"v", "0", ".", "3", ".", "1", "4">>
v0_4_16 == <<"v", "0", ".", "4", ".", "1", "6">>
v0_4_17 == <<"v", "0", ".", "4", ".", "1", "7">>
abc1234 == <<"a", "b", "c", "1", "2", "3", "4">>
v0 == <<"v", "0">>
v0_40_1 == <<"v", "0", ".", "4", "0", ".", "1">>
n0_3 == <<"0", ".", "3">>

SDK_TAB == "Pixeltable SDK"

(* ------------------------------------------------------------------ *)
(* JSON helpers                                                        *)
(* ------------------------------------------------------------------ *)
\* key in dict
Has(d, k) == k \in DOMAIN d

\* d[k] = v on a dict (adds the key when absent)
Put(d, k, v) == [x \in DOMAIN d \cup {k} |-> IF x = k THEN v ELSE d[x]]

\* the empty dict {}
EmptyDocs == <<>>

\* docs['navigation']['tabs'], the empty list when either key is absent
TabsOf(docs) ==
    IF Has(docs, "navigation") /\ Has(docs.navigation, "tabs")
    THEN docs.navigation.tabs ELSE <<>>

\* docs with docs['navigation']['tabs'] = tabs
WithTabs(docs, tabs) ==
    Put(docs, "navigation",
        Put(IF Has(docs, "navigation") THEN docs.navigation ELSE <<>>, "tabs", tabs))

\* tab.get('tab') == name
TabIs(tab, name) == Has(tab, "tab") /\ tab.tab = name

\* position of the first tab named 'Pixeltable SDK'; 0 stands for None
find_sdk_tab(docs) ==
    LET tabs == TabsOf(docs)
        hits == {i \in 1..Len(tabs) : TabIs(tabs[i], SDK_TAB)}
    IN  IF hits = {} THEN 0 ELSE CHOOSE i \in hits : \A j \in hits : i <= j

\* tab.get('dropdowns', [])
DropdownsOf(tab) == IF Has(tab, "dropdowns") THEN tab.dropdowns ELSE <<>>

\* the dropdown list of the SDK tab of docs; empty when there is none
SdkDropdowns(docs) ==
    IF find_sdk_tab(docs) = 0 THEN <<>>
    ELSE DropdownsOf(TabsOf(docs)[find_sdk_tab(docs)])

\* the keys of a dropdown list, in order
KeysOf(dds) == [i \in 1..Len(dds) |-> dds[i].dropdown]

\* {d['dropdown']: d for d in dds}.update(...): a dict keeps the position
\* of a key that is already present and appends a new key
RECURSIVE DictUpdate(_, _)
DictUpdate(vals, dds) ==
    IF dds = <<>> THEN vals
    ELSE LET d == dds[1]
             hit == {i \in 1..Len(vals) : vals[i].dropdown = d.dropdown}
         IN  DictUpdate(IF hit = {} THEN Append(vals, d)
                        ELSE [i \in 1..Len(vals) |->
                                IF i \in hit THEN d ELSE vals[i]],
                        Tail(dds))

\* sorted(seq, key=..., reverse=True): stable, descending; less[i][j] says
\* that the key of seq[i] is below the key of seq[j]
SortedReverse(seq, less) ==
    LET F[i \in 0..Len(seq)] ==
            IF i = 0 THEN <<>>
            ELSE LET acc == F[i - 1]
                     n == Cardinality({j \in 1..Len(acc) : ~less[acc[j]][i]})
                 IN  SubSeq(acc, 1, n) \o <<i>> \o SubSeq(acc, n + 1, Len(acc))
    IN  [k \in 1..Len(seq) |-> seq[F[Len(seq)][k]]]

(* ------------------------------------------------------------------ *)
(* DocsJsonUpdater._sort_dropdowns                                     *)
(* ------------------------------------------------------------------ *)
\* float('inf'): above every integer a key of the model parses to
Inf == 1000000

\* the sort key of a dropdown: a tuple of numbers
sort_key(dropdown) ==
    LET version_str == dropdown.dropdown
        stripped == IF StartsWith(version_str, <<"v">>)
                    THEN Tail(version_str) ELSE version_str
        parts == Split(stripped, ".")
    IN  IF version_str = latest THEN <<Inf>>
        ELSE IF \A i \in 1..Len(parts) : IsInt(parts[i])
             THEN [i \in 1..Len(parts) |-> ToInt(parts[i])]
             ELSE <<0>>

\* Python's < on tuples of numbers
RECURSIVE TupleLess(_, _)
TupleLess(a, b) ==
    IF b = <<>> THEN FALSE
    ELSE IF a = <<>> THEN TRUE
    ELSE IF a[1] # b[1] THEN a[1] < b[1]
    ELSE TupleLess(Tail(a), Tail(b))

SortKeyLess(d1, d2) == TupleLess(sort_key(d1), sort_key(d2))

sort_dropdowns(dropdowns) ==
    SortedReverse(dropdowns,
                  [i \in 1..Len(dropdowns) |-> [j \in 1..Len(dropdowns) |->
                      SortKeyLess(dropdowns[i], dropdowns[j])]])

(* ------------------------------------------------------------------ *)
(* deploy_docs_stage.merge_docs_json                                   *)
(* ------------------------------------------------------------------ *)
DropdownNameLess(d1, d2) == StrLess(d1.dropdown, d2.dropdown)

\* tabs with the dropdowns of the first SDK tab set to dds
SetSdkDropdowns(tabs, dds) ==
    LET hits == {i \in 1..Len(tabs) : TabIs(tabs[i], SDK_TAB)}
        first == CHOOSE i \in hits : \A j \in hits : i <= j
    IN  IF hits = {} THEN tabs
        ELSE [i \in 1..Len(tabs) |->
                IF i = first THEN Put(tabs[i], "dropdowns", dds) ELSE tabs[i]]

merge_docs_json(production_docs, local_docs, generated_docs) ==
    LET result == local_docs
        p == find_sdk_tab(production_docs)
        g == find_sdk_tab(generated_docs)
        l == find_sdk_tab(result)
    IN  IF g # 0 /\ l # 0
        THEN LET gen_sdk_tab == TabsOf(generated_docs)[g]
                 replaced == [i \in 1..Len(TabsOf(result)) |->
                                IF i = l THEN gen_sdk_tab ELSE TabsOf(result)[i]]
             IN  IF p # 0 /\ Has(TabsOf(production_docs)[p], "dropdowns")
                 THEN LET versions ==
                              DictUpdate(
                                  DictUpdate(<<>>, TabsOf(production_docs)[p].dropdowns),
                                  DropdownsOf(gen_sdk_tab))
                          sorted_versions ==
                              SortedReverse(versions,
                                  [i \in 1..Len(versions) |-> [j \in 1..Len(versions) |->
                                      DropdownNameLess(versions[i], versions[j])]])
                      IN  WithTabs(result, SetSdkDropdowns(replaced, sorted_versions))
                 ELSE WithTabs(result, replaced)
        ELSE result

(* ------------------------------------------------------------------ *)
(* deploy.merge_sdk_dropdowns, deploy.replace_paths                    *)
(* ------------------------------------------------------------------ *)
\* results of operations that can raise
Ok(v) == [ok |-> TRUE, val |-> v]
Raise(e) == [ok |-> FALSE, err |-> e]

\* dropdown['icon'] = 'archive' for each dropdown of the list
Archived(dds) == [i \in 1..Len(dds) |-> Put(dds[i], "icon", "archive")]

\* merge_sdk_dropdowns with the two dict updates in the other order, so that
\* the existing dropdown survives a key collision
merge_sdk_dropdowns_existing_wins(existing, new) ==
    LET e == find_sdk_tab(existing)
        n == find_sdk_tab(new)
    IN  IF e = 0 \/ n = 0 THEN Raise("AttributeError")
        ELSE LET existing_dropdowns == Archived(DropdownsOf(TabsOf(existing)[e]))
                 new_dropdowns == DropdownsOf(TabsOf(new)[n])
                 merged_dropdowns ==
                     DictUpdate(DictUpdate(<<>>, new_dropdowns), existing_dropdowns)
             IN  Ok(WithTabs(new,
                        [i \in 1..Len(TabsOf(new)) |->
                            IF i = n
                            THEN Put(TabsOf(new)[i], "dropdowns",
                                     sort_dropdowns(merged_dropdowns))
                            ELSE TabsOf(new)[i]]))

merge_sdk_dropdowns(existing, new) ==
    LET e == find_sdk_tab(existing)
        n == find_sdk_tab(new)
    IN  IF e = 0 \/ n = 0 THEN Raise("AttributeError")
        ELSE LET existing_dropdowns == Archived(DropdownsOf(TabsOf(existing)[e]))
                 new_dropdowns == DropdownsOf(TabsOf(new)[n])
                 merged_dropdowns ==
                     DictUpdate(DictUpdate(<<>>, existing_dropdowns), new_dropdowns)
             IN  Ok(WithTabs(new,
                        [i \in 1..Len(TabsOf(new)) |->
                            IF i = n
                            THEN Put(TabsOf(new)[i], "dropdowns",
                                     sort_dropdowns(merged_dropdowns))
                            ELSE TabsOf(new)[i]]))

\* isinstance(page, dict): a page entry is a path leaf or a nested group
IsPath(page) == Has(page, "path")

RECURSIVE replace_paths(_, _, _)
RECURSIVE ReplacePages(_, _, _)
replace_paths(group, old, new) ==
    IF ~Has(group, "pages") THEN Raise("KeyError")
    ELSE LET r == ReplacePages(group.pages, old, new)
         IN  IF r.ok THEN Ok(Put(group, "pages", r.val)) ELSE r

ReplacePages(pages, old, new) ==
    IF pages = <<>> THEN Ok(<<>>)
    ELSE LET head == IF IsPath(pages[1])
                     THEN Ok([path |-> ReplaceSegs(pages[1].path, old, new)])
                     ELSE replace_paths(pages[1], old, new)
             rest == ReplacePages(Tail(pages), old, new)
         IN  IF ~head.ok THEN head
             ELSE IF ~rest.ok THEN rest
             ELSE Ok(<<head.val>> \o rest.val)

(* ------------------------------------------------------------------ *)
(* DocsJsonUpdater.update_navigation                                   *)
(* ------------------------------------------------------------------ *)
\* tab.get("tab") == "API Reference" and tab.get("href")
IsOldApiTab(tab) ==
    TabIs(tab, "API Reference") /\ Has(tab, "href") /\ tab.href # ""

update_navigation(docs_config, navigation_structure) ==
    IF docs_config = EmptyDocs THEN Raise("ValueError")
    ELSE
    LET tabs == TabsOf(docs_config)
        hits == {i \in 1..Len(tabs) :
                    TabIs(tabs[i], SDK_TAB) \/ IsOldApiTab(tabs[i])}
        sdk_tab_index ==
            IF hits = {} THEN 0 ELSE CHOOSE i \in hits : \A j \in hits : i <= j
    IN  IF sdk_tab_index # 0
        THEN LET existing_tab == tabs[sdk_tab_index]
             IN  IF Has(existing_tab, "dropdowns")
                    /\ Has(navigation_structure, "dropdowns")
                 THEN IF navigation_structure.dropdowns = <<>>
                      THEN Raise("IndexError")
                      ELSE
                      LET new_dropdown == navigation_structure.dropdowns[1]
                          new_version == new_dropdown.dropdown
                          m == VersionMatchLen(new_version)
                          major_minor_prefix == Take(new_version, m)
                          kept == IF m > 0
                                  THEN SelectSeq(existing_tab.dropdowns,
                                         LAMBDA d : ~StartsWith(d.dropdown,
                                                                major_minor_prefix))
                                  ELSE existing_tab.dropdowns
                          sorted == sort_dropdowns(Append(kept, new_dropdown))
                          updated == Put(Put(existing_tab, "dropdowns", sorted),
                                         "tab", navigation_structure.tab)
                      IN  Ok(WithTabs(docs_config,
                                [i \in 1..Len(tabs) |->
                                    IF i = sdk_tab_index THEN updated ELSE tabs[i]]))
                 ELSE Ok(WithTabs(docs_config,
                            [i \in 1..Len(tabs) |->
                                IF i = sdk_tab_index THEN navigation_structure
                                ELSE tabs[i]]))
        ELSE Ok(WithTabs(docs_config, Append(tabs, navigation_structure)))

(* ------------------------------------------------------------------ *)
(* deploy.deploy: the docs.json it writes                              *)
(* ------------------------------------------------------------------ *)
\* replace_paths applied to every group of a list, in order
RECURSIVE ReplaceGroups(_, _, _)
ReplaceGroups(groups, old, new) ==
    IF groups = <<>> THEN Ok(<<>>)
    ELSE LET head == replace_paths(groups[1], old, new)
             rest == ReplaceGroups(Tail(groups), old, new)
         IN  IF ~head.ok THEN head
             ELSE IF ~rest.ok THEN rest
             ELSE Ok(<<head.val>> \o rest.val)

\* lines 162-173: the 'latest' dropdown is copied, the copy re-keyed and its
\* paths rewritten, and for stage the existing dropdowns are merged in
deploy_docs_json(existing_docs_json, new_docs_json, display_version, branch) ==
    LET n == find_sdk_tab(new_docs_json)
    IN  IF n = 0 THEN Raise("TypeError")
        ELSE
        LET sdk_tab == TabsOf(new_docs_json)[n]
        IN  IF ~Has(sdk_tab, "dropdowns") THEN Raise("KeyError")
            ELSE IF ~(Len(sdk_tab.dropdowns) = 1
                      /\ sdk_tab.dropdowns[1].dropdown = latest)
            THEN Raise("AssertionError")
            ELSE IF ~Has(sdk_tab.dropdowns[1], "groups") THEN Raise("KeyError")
            ELSE
            LET rewritten == ReplaceGroups(sdk_tab.dropdowns[1].groups,
                                           <<sdk, latest>>, <<sdk, display_version>>)
            IN  IF ~rewritten.ok THEN rewritten
                ELSE
                LET dropdown_copy ==
                        Put(Put(sdk_tab.dropdowns[1], "dropdown", display_version),
                            "groups", rewritten.val)
                    appended ==
                        WithTabs(new_docs_json,
                            [i \in 1..Len(TabsOf(new_docs_json)) |->
                                IF i = n
                                THEN Put(sdk_tab, "dropdowns",
                                         Append(sdk_tab.dropdowns, dropdown_copy))
                                ELSE TabsOf(new_docs_json)[i]])
                IN  IF branch # "dev"
                    THEN merge_sdk_dropdowns(existing_docs_json, appended)
                    ELSE Ok(appended)

(* ------------------------------------------------------------------ *)
(* Inputs                                                              *)
(* ------------------------------------------------------------------ *)
Page(segs) == [path |-> segs]

\* one group holding string pages only
FlatGroups(ver) ==
    <<[group |-> "Core", icon |-> "cube",
       pages |-> <<Page(<<sdk, ver, <<"table">>>>)>>]>>

\* a group whose pages hold a nested group object
NestedGroups(ver) ==
    <<[group |-> "Core", icon |-> "cube",
       pages |-> <<Page(<<sdk, ver, <<"table">>>>),
                   [group |-> "Functions",
                    pages |-> <<Page(<<sdk, ver, <<"image">>>>)>>]>>]>>

\* a group that nests through 'groups' and has no 'pages' key
ViaGroups(ver) ==
    <<[group |-> "Core", icon |-> "cube",
       groups |-> <<[group |-> "Functions",
                     pages |-> <<Page(<<sdk, ver, <<"image">>>>)>>]>>]>>

GroupShapes(ver) == {FlatGroups(ver), NestedGroups(ver), ViaGroups(ver)}

Dropdown(key, icon, groups) ==
    [dropdown |-> key, icon |-> icon, groups |-> groups]

\* a dropdown as an earlier deploy left it
Deployed(key) == Dropdown(key, "book", FlatGroups(key))

RECURSIVE DeployedList(_)
DeployedList(keys) ==
    IF keys = <<>> THEN <<>>
    ELSE <<Deployed(keys[1])>> \o DeployedList(Tail(keys))

\* the navigation structure the SDK generator hands to update_navigation
NavStructure(key, groups) ==
    [tab |-> SDK_TAB, dropdowns |-> <<Dropdown(key, "book", groups)>>]

DocTab ==
    [tab |-> "Documentation",
     groups |-> <<[group |-> "Guides",
                   pages |-> <<Page(<<<<"overview">>>>),
                               Page(<<sdk, latest, <<"table">>>>)>>]>>]

OldDocTab ==
    [tab |-> "Documentation",
     groups |-> <<[group |-> "Guides", pages |-> <<Page(<<<<"intro">>>>)>>]>>]

\* docs/mintlify/docs.json of the working copy
LocalPlaceholder ==
    [name |-> "local",
     navigation |-> [tabs |-> <<DocTab, [tab |-> SDK_TAB, groups |-> <<>>]>>]]

LocalDropdowns ==
    [name |-> "local",
     navigation |-> [tabs |-> <<DocTab, [tab |-> SDK_TAB, dropdowns |-> <<>>]>>]]

LocalApiRef ==
    [name |-> "local",
     navigation |-> [tabs |-> <<DocTab, [tab |-> "API Reference",
                                         href |-> "https://pixeltable.github.io"]>>]]

LocalNoSdk == [name |-> "local", navigation |-> [tabs |-> <<DocTab>>]]

LocalManifests == {LocalPlaceholder, LocalDropdowns, LocalApiRef, LocalNoSdk}

\* docs.json of a hosted branch
Hosted(keys) ==
    [name |-> "hosted",
     navigation |-> [tabs |-> <<OldDocTab,
                                [tab |-> SDK_TAB, dropdowns |-> DeployedList(keys)]>>]]

HostedNoSdk == [name |-> "hosted", navigation |-> [tabs |-> <<OldDocTab>>]]

\* a hosted docs.json whose SDK tab has no 'dropdowns' key
HostedGroupsOnly ==
    [name |-> "hosted",
     navigation |-> [tabs |-> <<OldDocTab, [tab |-> SDK_TAB, groups |-> <<>>]>>]]

HostedKeyLists ==
    {<<>>, <<v0_4_16, v0_3_14>>, <<v0_4_17, v0_3_14>>, <<v0_10, v0_3>>,
     <<latest, v0_4_16>>}

ProdManifests ==
    {EmptyDocs, HostedNoSdk, HostedGroupsOnly} \cup {Hosted(keys) : keys \in HostedKeyLists}

\* docs/target/docs.json after the generator ran on a copy of local
Generate(local, key, groups) ==
    update_navigation(local, NavStructure(key, groups)).val

GeneratedManifests ==
    {Generate(l, latest, g) : l \in LocalManifests, g \in GroupShapes(latest)}
    \cup {LocalNoSdk}

DeployVersions == {v0_4_17, v0_3_14, v0_10}

\* key lists handed to the sort, in the order a caller built them
SortKeyLists ==
    {<<v0_3, latest, v0_10>>, <<abc1234, v0_3, latest>>, <<v0, abc1234, latest>>,
     <<abc1234, v0>>, <<n0_3, v0_3>>, <<v0_3, n0_3, v0_10>>}

(* ------------------------------------------------------------------ *)
(* Versions                                                            *)
(* ------------------------------------------------------------------ *)
\* parse_version that takes the prefix from the argument as given, before
\* the leading 'v' is added
parse_version_raw_prefix(version) ==
    LET full == IF StartsWith(version, <<"v">>) THEN version
                ELSE <<"v">> \o version
        m == VersionMatchLen(full)
    IN  IF m = 0 THEN Raise("ValueError")
        ELSE Ok(<<full, Take(version, m)>>)

\* deploy_docs_stage.parse_version: (full_version, major_minor_prefix)
parse_version(version) ==
    LET full == IF StartsWith(version, <<"v">>) THEN version
                ELSE <<"v">> \o version
        m == VersionMatchLen(full)
    IN  IF m = 0 THEN Raise("ValueError") ELSE Ok(<<full, Take(full, m)>>)

\* str.replace on characters
ReplaceChar(str, old, new) ==
    [i \in 1..Len(str) |-> IF str[i] = old THEN new ELSE str[i]]

\* display_version without the assertion on the patch number
display_version_unasserted(pxt_version, branch) ==
    IF branch = "dev" THEN Ok(<<"v">> \o ReplaceChar(pxt_version, "+", "."))
    ELSE LET version_split == Split(pxt_version, ".")
             patch_num == ToInt(version_split[3])
         IN  IF Len(version_split) = 3 THEN Ok(<<"v">> \o pxt_version)
             ELSE Ok(<<"v">> \o Join(<<version_split[1], version_split[2],
                                       IF patch_num > 0 THEN ToStr(patch_num - 1)
                                       ELSE <<"-">> \o ToStr(1 - patch_num)>>, "."))

\* deploy.deploy, the version the docs are published as
display_version(pxt_version, branch) ==
    IF branch = "dev" THEN Ok(<<"v">> \o ReplaceChar(pxt_version, "+", "."))
    ELSE LET version_split == Split(pxt_version, ".")
         IN  IF Len(version_split) = 3 THEN Ok(<<"v">> \o pxt_version)
             ELSE IF Len(version_split) < 3 THEN Raise("IndexError")
             ELSE IF ~IsInt(version_split[3]) THEN Raise("ValueError")
             ELSE IF ~(ToInt(version_split[3]) > 0) THEN Raise("AssertionError")
             ELSE Ok(<<"v">> \o Join(<<version_split[1], version_split[2],
                                       ToStr(ToInt(version_split[3]) - 1)>>, "."))

pxt_0_4_17 == <<"0", ".", "4", ".", "1", "7">>
pxt_0_3_14 == <<"0", ".", "3", ".", "1", "4">>
pxt_0_4_18_dev == <<"0", ".", "4", ".", "1", "8", ".", "d", "e", "v", "1", "5">>
pxt_0_5_0_dev == <<"0", ".", "5", ".", "0", ".", "d", "e", "v", "1">>

PxtVersions == {pxt_0_4_17, pxt_0_4_18_dev, pxt_0_5_0_dev}

\* --version arguments of deploy_docs_stage
StageVersionArgs == {v0_4_17, pxt_0_3_14, latest}

v1 == <<"v", "1">>
abc == <<"a", "b", "c">>
v0_4_17rc == v0_4_17 \o <<"r", "c">>
v0_4_x == <<"v", "0", ".", "4", ".", "x">>
vv0_4 == <<"v", "v", "0", ".", "4">>
pxt_0_4 == <<"0", ".", "4">>

\* strings handed to parse_version
VersionStrings ==
    {v0_4_17, pxt_0_3_14, pxt_0_4, v0_10, v0_40_1, pxt_0_4_17,
     v1, abc, v0_4_17rc, v0_4_x, vv0_4, latest, <<>>}

(* ------------------------------------------------------------------ *)
(* changelog.fetch_releases, contributors.fetch_contributors          *)
(* ------------------------------------------------------------------ *)
\* an output directory: absent, or a set of (file name, content) pairs
NoDir == [exists |-> FALSE, files |-> {}]
Dir(files) == [exists |-> TRUE, files |-> files]

\* urllib.request.urlopen and json.loads on one page: Ok(records) or an
\* exception; every exception leaves the function as RuntimeError
fetch_releases_from_github(response) ==
    IF response.ok THEN response ELSE Raise("RuntimeError")

\* the pages are read in order, following rel="next"; the first failing
\* page ends the function
RECURSIVE fetch_contributors_from_github(_)
fetch_contributors_from_github(pages) ==
    IF pages = <<>> THEN Ok(<<>>)
    ELSE IF ~pages[1].ok THEN Raise("RuntimeError")
    ELSE LET rest == fetch_contributors_from_github(Tail(pages))
         IN  IF rest.ok THEN Ok(pages[1].val \o rest.val) ELSE rest

\* a demotion of every heading by one level
DemoteHeadings_by_one(lines) ==
    [i \in 1..Len(lines) |->
        IF lines[i].level > 0 THEN [lines[i] EXCEPT !.level = @ + 1] ELSE lines[i]]

\* body.replace('\n## ', '\n#### ') and the startswith('## ') case, on a body
\* given as its lines, each with its heading level (0: not a heading)
DemoteHeadings(lines) ==
    [i \in 1..Len(lines) |->
        IF lines[i].level = 2 THEN [lines[i] EXCEPT !.level = 4] ELSE lines[i]]

\* the section of one release in changelog.mdx; release.get('body', '') is
\* None for a release whose body is null, and None.strip() raises
ReleaseSection(release) ==
    IF release.body.null THEN Raise("AttributeError")
    ELSE Ok([level |-> 3, name |-> release.name, tag_name |-> release.tag_name,
             body |-> DemoteHeadings(release.body.lines)])

RECURSIVE ReleaseSections(_)
ReleaseSections(releases) ==
    IF releases = <<>> THEN Ok(<<>>)
    ELSE LET head == ReleaseSection(releases[1])
             rest == ReleaseSections(Tail(releases))
         IN  IF ~head.ok THEN head
             ELSE IF ~rest.ok THEN rest
             ELSE Ok(<<head.val>> \o rest.val)

\* generate_changelog_to_dir that cleans the output directory before it
\* fetches
generate_changelog_to_dir_clean_first(output_dir, response) ==
    LET releases == fetch_releases_from_github(response)
    IN  IF ~releases.ok THEN [out |-> Raise("RuntimeError"), dir |-> Dir({})]
        ELSE IF releases.val = <<>> THEN [out |-> Ok(<<>>), dir |-> Dir({})]
        ELSE LET sections == ReleaseSections(releases.val)
             IN  IF ~sections.ok THEN [out |-> sections, dir |-> Dir({})]
                 ELSE [out |-> Ok(<<>>),
                       dir |-> Dir({<<"changelog.mdx", sections.val>>})]

\* generate_changelog_to_dir: the outcome and the output directory after it
generate_changelog_to_dir(output_dir, response) ==
    LET releases == fetch_releases_from_github(response)
    IN  IF ~releases.ok THEN [out |-> Raise("RuntimeError"), dir |-> output_dir]
        ELSE IF releases.val = <<>> THEN [out |-> Ok(<<>>), dir |-> output_dir]
        ELSE LET sections == ReleaseSections(releases.val)
             IN  IF ~sections.ok THEN [out |-> sections, dir |-> Dir({})]
                 ELSE [out |-> Ok(<<>>),
                       dir |-> Dir({<<"changelog.mdx", sections.val>>})]

\* the cards of contributors.mdx: sorted by contributions, descending, bots
\* skipped
ContributorCards(contributors) ==
    LET sorted == SortedReverse(contributors,
                      [i \in 1..Len(contributors) |->
                          [j \in 1..Len(contributors) |->
                              contributors[i].contributions
                                  < contributors[j].contributions]])
    IN  SelectSeq(sorted, LAMBDA c : c.type # "Bot")

\* generate_contributors_page: the outcome and the output directory after it
generate_contributors_page(output_dir, pages) ==
    LET contributors == fetch_contributors_from_github(pages)
    IN  IF ~contributors.ok THEN [out |-> Raise("RuntimeError"), dir |-> output_dir]
        ELSE IF contributors.val = <<>> THEN [out |-> Ok(<<>>), dir |-> output_dir]
        ELSE [out |-> Ok(<<>>),
              dir |-> Dir({f \in output_dir.files : f[1] # "contributors.mdx"}
                          \cup {<<"contributors.mdx",
                                  ContributorCards(contributors.val)>>})]

\* releases as the API lists them, newest first
Release(tag, body) == [tag_name |-> tag, name |-> tag, body |-> body]

\* the body of a release: its lines, or JSON null
Body(lines) == [null |-> FALSE, lines |-> lines]
NullBody == [null |-> TRUE, lines |-> <<>>]

ReleaseBodies ==
    {Body(<<[level |-> 2, text |-> "What's Changed"], [level |-> 0, text |-> "fix"]>>),
     Body(<<[level |-> 0, text |-> "notes"], [level |-> 2, text |-> "New Contributors"],
            [level |-> 3, text |-> "Thanks"]>>),
     Body(<<[level |-> 2, text |-> "What's Changed"], [level |-> 1, text |-> "Release"],
            [level |-> 0, text |-> "fix"], [level |-> 2, text |-> "New Contributors"],
            [level |-> 3, text |-> "Thanks"]>>),
     NullBody}

ReleaseResponses ==
    {Raise("URLError"), Raise("JSONDecodeError"), Ok(<<>>)}
    \cup {Ok(<<Release(v0_4_17, b)>>) : b \in ReleaseBodies}
    \cup {Ok(<<Release(v0_4_17, b), Release(v0_4_16, Body(<<>>))>>) : b \in ReleaseBodies}

Contributor(login, n, type) ==
    [login |-> login, contributions |-> n, type |-> type]

ContributorPages ==
    {<<Raise("URLError")>>,
     <<Ok(<<Contributor("ann", 3, "User")>>), Raise("HTTPError")>>,
     <<Ok(<<>>)>>,
     <<Ok(<<Contributor("ann", 3, "User"), Contributor("bot", 9, "Bot")>>),
       Ok(<<Contributor("bob", 5, "User")>>)>>,
     <<Ok(<<Contributor("bob", 5, "User")>>)>>}

\* output directories as an earlier run, or nobody, left them
OutputDirs ==
    {NoDir, Dir({}),
     Dir({<<"changelog.mdx", <<>>>>, <<"v0.4.16.mdx", <<>>>>}),
     Dir({<<"contributors.mdx", <<>>>>, <<"index.mdx", <<>>>>})}

(* ------------------------------------------------------------------ *)
(* mintlifier.page_base: signatures                                    *)
(* ------------------------------------------------------------------ *)
\* str.strip(): whitespace off both ends
IsSpace(c) == c \in {" ", "\n", "\t"}

RECURSIVE LStrip(_)
LStrip(s) == IF s # <<>> /\ IsSpace(s[1]) THEN LStrip(Tail(s)) ELSE s

RECURSIVE RStrip(_)
RStrip(s) ==
    IF s # <<>> /\ IsSpace(s[Len(s)]) THEN RStrip(SubSeq(s, 1, Len(s) - 1)) ELSE s

Strip(s) == RStrip(LStrip(s))

\* sep.join(parts) for a separator of any length
RECURSIVE JoinStr(_, _)
JoinStr(parts, sep) ==
    IF parts = <<>> THEN <<>>
    ELSE IF Len(parts) = 1 THEN parts[1]
    ELSE parts[1] \o sep \o JoinStr(Tail(parts), sep)

\* position of the first c in s, 0 when there is none
RECURSIVE IndexFrom(_, _, _)
IndexFrom(s, c, i) ==
    IF i > Len(s) THEN 0 ELSE IF s[i] = c THEN i ELSE IndexFrom(s, c, i + 1)

Index(s, c) == IndexFrom(s, c, 1)

\* position of the last c in s, 0 when there is none
RECURSIVE RIndexFrom(_, _, _)
RIndexFrom(s, c, i) ==
    IF i = 0 THEN 0 ELSE IF s[i] = c THEN i ELSE RIndexFrom(s, c, i - 1)

RIndex(s, c) == RIndexFrom(s, c, Len(s))

\* first position at or after i of s that holds no whitespace
RECURSIVE SkipSpace(_, _)
SkipSpace(s, i) ==
    IF i <= Len(s) /\ IsSpace(s[i]) THEN SkipSpace(s, i + 1) ELSE i

\* re.sub(prefix + r'\s*q([^q]+)q', prefix + r' \1', s) for a quote q, from
\* position i of s on
\* a match of the pattern starts at position i of s
QuotedAt(s, i, prefix, q) ==
    /\ StartsWith(Drop(s, i), prefix)
    /\ SkipSpace(s, i + Len(prefix)) <= Len(s)
    /\ s[SkipSpace(s, i + Len(prefix))] = q
    /\ IndexFrom(s, q, SkipSpace(s, i + Len(prefix)) + 1)
           > SkipSpace(s, i + Len(prefix)) + 1

RECURSIVE SubQuotedFrom(_, _, _, _)
SubQuotedFrom(s, i, prefix, q) ==
    CASE i > Len(s) -> <<>>
      [] i <= Len(s) /\ QuotedAt(s, i, prefix, q) ->
            prefix \o <<" ">>
                \o SubSeq(s, SkipSpace(s, i + Len(prefix)) + 1,
                          IndexFrom(s, q, SkipSpace(s, i + Len(prefix)) + 1) - 1)
                \o SubQuotedFrom(s, IndexFrom(s, q, SkipSpace(s, i + Len(prefix)) + 1) + 1,
                                 prefix, q)
      [] OTHER -> <<s[i]>> \o SubQuotedFrom(s, i + 1, prefix, q)

SubQuoted(s, prefix, q) ==
    CHOOSE r \in {SubQuotedFrom(x, 1, prefix, q) : x \in {s}} : TRUE

\* PageBase._remove_type_quotes
remove_type_quotes(sig_str) ==
    SubQuoted(SubQuoted(SubQuoted(SubQuoted(sig_str,
        <<":">>, "\""), <<":">>, "'"), <<"-", ">">>, "\""), <<"-", ">">>, "'")

\* PageBase._find_matching_paren from position i with the depth so far;
\* 0 for -1
RECURSIVE MatchingParen(_, _, _)
MatchingParen(s, i, depth) ==
    CASE i > Len(s) -> 0
      [] i <= Len(s) /\ s[i] = ")" /\ depth = 1 -> i
      [] OTHER -> MatchingParen(s, i + 1,
                     depth + (IF s[i] = "(" THEN 1 ELSE IF s[i] = ")" THEN -1 ELSE 0))

find_matching_paren(s, open_pos) ==
    IF open_pos > Len(s) \/ s[open_pos] # "(" THEN 0
    ELSE MatchingParen(s, open_pos, 0)

\* the loop of PageBase._split_params at position i; current holds the
\* characters from position start on, string_char is "" when in_string is
\* false
\* in_string (string_char) after the character at position i
StringCharAfter(s, i, string_char) ==
    CASE string_char = "" /\ s[i] \in {"\"", "'"} -> s[i]
      [] string_char # "" /\ s[i] = string_char /\ (i = 1 \/ s[i - 1] # "\\") -> ""
      [] OTHER -> string_char

\* depth after the character at position i
DepthAfter(s, i, depth, string_char) ==
    CASE string_char = "" /\ s[i] \in {"(", "[", "{"} -> depth + 1
      [] string_char = "" /\ s[i] \in {")", "]", "}"} -> depth - 1
      [] OTHER -> depth

RECURSIVE SplitParamsFrom(_, _, _, _, _)
SplitParamsFrom(s, i, start, depth, string_char) ==
    CASE i > Len(s) /\ start <= Len(s) -> <<Strip(SubSeq(s, start, Len(s)))>>
      [] i > Len(s) /\ start > Len(s) -> <<>>
      [] i <= Len(s) /\ string_char = "" /\ s[i] = "," /\ depth = 0 ->
            <<Strip(SubSeq(s, start, i - 1))>>
                \o SplitParamsFrom(s, i + 1, i + 1, depth, "")
      [] OTHER -> SplitParamsFrom(s, i + 1, start,
                                  DepthAfter(s, i, depth, string_char),
                                  StringCharAfter(s, i, string_char))

\* PageBase._split_params
split_params(params_str) == SplitParamsFrom(params_str, 1, 1, 0, "")

\* PageBase._format_signature_manual; sig_str.rindex(")") raises ValueError
\* when there is no ")"
format_signature_manual(sig_str) ==
    IF Index(sig_str, "(") = 0 THEN Ok(sig_str)
    ELSE LET open_paren == Index(sig_str, "(")
             matching == find_matching_paren(sig_str, open_paren)
             close_paren == IF matching = 0 THEN RIndex(sig_str, ")") ELSE matching
             params_str == Strip(SubSeq(sig_str, open_paren + 1, close_paren - 1))
             after_close == Strip(Drop(sig_str, close_paren + 1))
             params == split_params(params_str)
         IN  IF close_paren = 0 THEN Raise("ValueError")
             ELSE IF params_str = <<>> \/ Len(params) = 0
             THEN Ok(<<"(", ")">> \o after_close)
             ELSE IF Len(params) = 1
             THEN Ok(<<"(">> \o params[1] \o <<")">> \o after_close)
             ELSE Ok(<<"(", "\n", " ", " ", " ", " ">>
                     \o JoinStr([i \in 1..Len(params) |-> Strip(params[i])],
                                <<",", "\n", " ", " ", " ", " ">>)
                     \o <<"\n", ")">> \o after_close)

\* PageBase._format_signature_with_ruff
format_signature_with_ruff(sig_str) ==
    format_signature_manual(remove_type_quotes(sig_str))

\* str.isalnum() on the characters of the model
IsAlnum(s) ==
    s # <<>> /\ \A i \in 1..Len(s) :
        s[i] \in Digits \cup {"a", "b", "c", "d", "e", "f", "g", "h", "i", "j", "k", "l", "m",
                              "n", "o", "p", "q", "r", "s", "t", "u", "v", "w", "x", "y", "z",
                              "A", "D", "F", "N"}

\* the characters of s other than c
WithoutChar(s, c) == SelectSeq(s, LAMBDA x : x # c)

\* PageBase._format_signature(sig_str, default_name)
format_signature(sig_str) ==
    LET paren_idx == Index(sig_str, "(")
        func_name == Take(sig_str, paren_idx - 1)
        formatted == format_signature_with_ruff(Drop(sig_str, paren_idx))
    IN  IF paren_idx > 1 /\ IsAlnum(WithoutChar(WithoutChar(func_name, "_"), "."))
        THEN IF formatted.ok /\ StartsWith(formatted.val, <<"(">>)
             THEN Ok(func_name \o formatted.val)
             ELSE formatted
        ELSE format_signature_with_ruff(sig_str)

\* a fenced code block of the page: its language and its lines' text
Fenced(language, code) == [fence |-> language, code |-> code]

\* FunctionSectionGenerator._document_signature for a function without
\* .signatures, given str(inspect.signature(func))
document_signature(sig_str, func_name) ==
    LET formatted_sig == format_signature(sig_str)
    IN  IF ~formatted_sig.ok THEN formatted_sig
        ELSE Ok(Fenced("python", func_name \o formatted_sig.val \o <<"\n">>))

\* str(inspect.Signature): the parameters joined by ', ' between parentheses,
\* then the return annotation
SignatureStr(params, returns) ==
    <<"(">> \o JoinStr(params, <<",", " ">>) \o <<")">> \o returns

\* parameters as inspect prints them
P_x == <<"x", ":", " ", "i", "n", "t">>
P_d == <<"d", ":", " ", "D", "i", "c", "t", "[", "s", "t", "r", ",", " ", "i", "n", "t", "]">>
P_sep == <<"s", "e", "p", "=", "'", ",", " ", "'">>
P_end == <<"e", "n", "d", "=", "'", ")", "'">>

ParamTexts == {P_x, P_d, P_sep, P_end}

NoReturn == <<>>
ReturnsArray == <<" ", "-", ">", " ", "'", "A", "r", "r", "a", "y", "[", "(", "3", ",", ")", "]", "'">>

ReturnTexts == {NoReturn, ReturnsArray}

MaxParams == 3

ParamLists == UNION {[1..n -> ParamTexts] : n \in 0..MaxParams}

create == <<"c", "r", "e", "a", "t", "e">>

(* ------------------------------------------------------------------ *)
(* mintlifier.section_function: examples                               *)
(* ------------------------------------------------------------------ *)
\* the lines of an Examples block, each by what line.strip() starts with:
\* ">>>", "...", nothing (a blank line) or anything else; a line stands for
\* its text by its number
LineKinds == {">>>", "...", "", "text"}

MaxLines == 4

ExampleTexts == UNION {[1..n -> LineKinds] : n \in 0..MaxLines}

\* {"description": ..., "code": ..., "output": ""}: the description is the
\* texts joined by " ", the code the code lines joined by "\n"
Example(description, code_lines) ==
    [description |-> description, code |-> code_lines, output |-> <<>>]

\* an extraction in which a blank line always ends the code block
SameExampleAfterBlank_never(lines, i) == FALSE

\* the line after the blank line i starts with ">>>"
SameExampleAfterBlank(lines, i) ==
    i + 1 <= Len(lines) /\ lines[i + 1] = ">>>"

\* the while loop of _extract_doctest_examples at line i
RECURSIVE ExtractFrom(_, _, _, _, _, _)
ExtractFrom(lines, i, examples, description, code_lines, in_code) ==
    CASE i > Len(lines) ->
            IF code_lines # <<>>
            THEN Append(examples, Example(description, code_lines))
            ELSE examples
      [] i <= Len(lines) /\ lines[i] = ">>>" ->
            ExtractFrom(lines, i + 1, examples, description,
                        Append(code_lines, i), TRUE)
      [] i <= Len(lines) /\ lines[i] = "..." ->
            ExtractFrom(lines, i + 1, examples, description,
                        IF in_code THEN Append(code_lines, i) ELSE code_lines,
                        in_code)
      [] i <= Len(lines) /\ lines[i] = "" /\ in_code /\ i = Len(lines) ->
            ExtractFrom(lines, i + 1, examples, description, code_lines, FALSE)
      [] i <= Len(lines) /\ lines[i] = "" /\ in_code /\ i < Len(lines)
              /\ SameExampleAfterBlank(lines, i) ->
            ExtractFrom(lines, i + 1, examples, description, code_lines, TRUE)
      [] i <= Len(lines) /\ lines[i] \in {"", "text"} /\ in_code
              /\ ~(lines[i] = "" /\ (i = Len(lines) \/ SameExampleAfterBlank(lines, i))) ->
            IF code_lines # <<>>
            THEN ExtractFrom(lines, i + 1,
                             Append(examples, Example(description, code_lines)),
                             <<>>, <<>>, FALSE)
            ELSE ExtractFrom(lines, i + 1, examples, description, code_lines, FALSE)
      [] i <= Len(lines) /\ lines[i] = "text" /\ ~in_code ->
            ExtractFrom(lines, i + 1, examples, Append(description, i),
                        code_lines, FALSE)
      [] OTHER ->
            ExtractFrom(lines, i + 1, examples, description, code_lines, in_code)

\* FunctionSectionGenerator._extract_doctest_examples
extract_doctest_examples(text) ==
    SelectSeq(ExtractFrom(text, 1, <<>>, <<>>, <<>>, FALSE),
              LAMBDA ex : ex.code # <<>> \/ ex.description # <<>>)

\* FunctionSectionGenerator._format_examples_from_meta for one meta: for each
\* example its description line, if any, and its code block, if any
format_examples_from_meta(text) ==
    LET examples == extract_doctest_examples(text)
    IN  [k \in 1..Len(examples) |->
            [description |-> examples[k].description,
             blocks |-> IF examples[k].code # <<>>
                        THEN <<Fenced("python", examples[k].code)>>
                        ELSE <<>>]]

(* ------------------------------------------------------------------ *)
(* The merges on objects: what the arguments hold afterwards           *)
(* ------------------------------------------------------------------ *)
\* merge_docs_json puts gen_sdk_tab itself into result
SharesSdkTab(production_docs, local_docs, generated_docs) ==
    find_sdk_tab(generated_docs) # 0 /\ find_sdk_tab(local_docs) # 0

\* merge_docs_json assigns tab['dropdowns'] = sorted_versions
AssignsDropdowns(production_docs, local_docs, generated_docs) ==
    /\ SharesSdkTab(production_docs, local_docs, generated_docs)
    /\ find_sdk_tab(production_docs) # 0
    /\ Has(TabsOf(production_docs)[find_sdk_tab(production_docs)], "dropdowns")

\* docs with the dropdown list of its SDK tab replaced
WithSdkDropdowns(docs, dds) == WithTabs(docs, SetSdkDropdowns(TabsOf(docs), dds))

\* the three arguments as the caller finds them when merge_docs_json has
\* returned: local_docs was deep-copied, the SDK tab of result is the tab
\* object of generated_docs and received the merged list
merge_docs_json_args(production_docs, local_docs, generated_docs) ==
    [production_docs |-> production_docs,
     local_docs |-> local_docs,
     generated_docs |->
         IF AssignsDropdowns(production_docs, local_docs, generated_docs)
         THEN WithSdkDropdowns(generated_docs,
                  SdkDropdowns(merge_docs_json(production_docs, local_docs,
                                               generated_docs)))
         ELSE generated_docs]

\* the last position of key in a dropdown list, 0 when it has none: the
\* object a dict built from the list holds for key
LastWithKey(dds, key) ==
    LET hits == {i \in 1..Len(dds) : dds[i].dropdown = key}
    IN  IF hits = {} THEN 0 ELSE CHOOSE i \in hits : \A j \in hits : j <= i

\* dropdown['icon'] = 'archive' on the dropdown at position k
ArchiveAt(dds, k) == [dds EXCEPT ![k] = Put(@, "icon", "archive")]

\* the arguments after the caller archived dropdown k of the SDK tab of the
\* result: the tab and its list are those of generated_docs, a dropdown
\* taken from production_docs is the object production_docs holds
args_after_archive(production_docs, local_docs, generated_docs, k) ==
    LET result == merge_docs_json(production_docs, local_docs, generated_docs)
        key == SdkDropdowns(result)[k].dropdown
        prod_dropdowns == SdkDropdowns(production_docs)
    IN  [production_docs |->
             IF /\ AssignsDropdowns(production_docs, local_docs, generated_docs)
                /\ LastWithKey(SdkDropdowns(generated_docs), key) = 0
             THEN WithSdkDropdowns(production_docs,
                      ArchiveAt(prod_dropdowns, LastWithKey(prod_dropdowns, key)))
             ELSE production_docs,
         local_docs |-> local_docs,
         generated_docs |->
             IF SharesSdkTab(production_docs, local_docs, generated_docs)
             THEN WithSdkDropdowns(generated_docs,
                                   ArchiveAt(SdkDropdowns(result), k))
             ELSE generated_docs]

\* existing and new as the caller finds them when merge_sdk_dropdowns has
\* returned: the dropdowns of existing were archived in place, new holds
\* the merged list
merge_sdk_dropdowns_args(existing, new) ==
    IF ~merge_sdk_dropdowns(existing, new).ok
    THEN [existing |-> existing, new |-> new]
    ELSE [existing |-> WithSdkDropdowns(existing,
                           Archived(SdkDropdowns(existing))),
          new |-> merge_sdk_dropdowns(existing, new).val]

(* ------------------------------------------------------------------ *)
(* State                                                               *)
(* ------------------------------------------------------------------ *)
VARIABLES
    remote,       \* branch of pixeltable-docs-www -> what was last pushed
    docs_config,  \* DocsJsonUpdater.docs_config
    last,         \* the call that was made last, with inputs and outcome
    deploys,      \* deploy invocations so far
    invocations,  \* operator -> the deploy.deploy run that operator has going
    files         \* docs/notebooks and the MDX output directory, with mtimes

vars == <<remote, docs_config, last, deploys, invocations, files>>

Branches == {"dev", "stage", "main"}

Tree(docs, dirs) == [docs |-> docs, sdk |-> dirs]

\* the notebooks under docs/notebooks; 'scratch' has no H1 heading
NotebookNames == {"intro", "tables", "scratch"}

\* the operators who may each have a deploy going at the same time
Operators == {1, 2}

\* no deploy of that operator was started
NotRunning == [status |-> "idle"]

Init ==
    /\ remote = [b \in Branches |->
                    Tree(Hosted(<<v0_40_1, v0_4_16, v0_3_14>>),
                         {v0_40_1, v0_4_16, v0_3_14})]
    /\ docs_config = EmptyDocs
    /\ last = [op |-> "none"]
    /\ deploys = 0
    /\ invocations = [p \in Operators |-> NotRunning]
    /\ files = [now |-> 0, notebooks |-> [n \in NotebookNames |-> 0],
                pre |-> {}, output |-> <<>>]

(* ------------------------------------------------------------------ *)
(* The merge functions applied to drawn inputs                         *)
(* ------------------------------------------------------------------ *)
MergeDocsJson ==
    \E p \in ProdManifests, l \in LocalManifests, g \in GeneratedManifests :
        /\ last' = [op |-> "merge_docs_json", prod |-> p, local |-> l, gen |-> g,
                    out |-> Ok(merge_docs_json(p, l, g))]
        /\ UNCHANGED <<invocations, files, remote, docs_config, deploys>>

DeployDocsJson ==
    \E e \in ProdManifests, g \in GeneratedManifests, v \in DeployVersions,
       b \in {"dev", "stage"} :
        /\ last' = [op |-> "deploy_docs_json", prod |-> e, gen |-> g,
                    version |-> v, branch |-> b,
                    out |-> deploy_docs_json(e, g, v, b)]
        /\ UNCHANGED <<invocations, files, remote, docs_config, deploys>>

SortDropdowns ==
    \E keys \in HostedKeyLists \cup SortKeyLists :
        /\ last' = [op |-> "sort_dropdowns", arg |-> DeployedList(keys),
                    out |-> Ok(sort_dropdowns(DeployedList(keys)))]
        /\ UNCHANGED <<invocations, files, remote, docs_config, deploys>>

ReplacePaths ==
    \E gs \in GroupShapes(latest), v \in DeployVersions :
        /\ last' = [op |-> "replace_paths", arg |-> gs[1], version |-> v,
                    out |-> replace_paths(gs[1], <<sdk, latest>>, <<sdk, v>>)]
        /\ UNCHANGED <<invocations, files, remote, docs_config, deploys>>

\* DocsJsonUpdater.load
Load ==
    \E l \in LocalManifests :
        /\ docs_config' = l
        /\ last' = [op |-> "load"]
        /\ UNCHANGED <<invocations, files, remote, deploys>>

UpdateNavigation ==
    \E key \in DeployVersions \cup {latest, v0_4_16},
       g \in {FlatGroups(latest), ViaGroups(latest)} :
        LET r == update_navigation(docs_config, NavStructure(key, g))
        IN  /\ r.ok => Len(SdkDropdowns(r.val)) <= MaxDropdowns
            /\ docs_config' = IF r.ok THEN r.val ELSE docs_config
            /\ last' = [op |-> "update_navigation", key |-> key, ok |-> r.ok]
            /\ UNCHANGED <<invocations, files, remote, deploys>>

ParseVersion ==
    \E version \in VersionStrings :
        /\ last' = [op |-> "parse_version", arg |-> version,
                    out |-> parse_version(version)]
        /\ UNCHANGED <<invocations, files, remote, docs_config, deploys>>

GenerateChangelog ==
    \E output_dir \in OutputDirs, response \in ReleaseResponses :
        /\ last' = [op |-> "generate_changelog_to_dir", dir |-> output_dir,
                    response |-> response,
                    out |-> generate_changelog_to_dir(output_dir, response).out,
                    after |-> generate_changelog_to_dir(output_dir, response).dir]
        /\ UNCHANGED <<invocations, files, remote, docs_config, deploys>>

GenerateContributors ==
    \E output_dir \in OutputDirs, pages \in ContributorPages :
        /\ last' = [op |-> "generate_contributors_page", dir |-> output_dir,
                    pages |-> pages,
                    out |-> generate_contributors_page(output_dir, pages).out,
                    after |-> generate_contributors_page(output_dir, pages).dir]
        /\ UNCHANGED <<invocations, files, remote, docs_config, deploys>>

NextFn ==
    \/ GenerateChangelog
    \/ GenerateContributors
    \/ ParseVersion
    \/ MergeDocsJson
    \/ DeployDocsJson
    \/ SortDropdowns
    \/ ReplacePaths

SpecFn == Init /\ [][NextFn]_vars

\* merge_docs_json returns to its caller
MergeObjects ==
    \E p \in ProdManifests, l \in LocalManifests, g \in GeneratedManifests :
        /\ last' = [op |-> "merge_docs_json", prod |-> p, local |-> l, gen |-> g,
                    out |-> merge_docs_json(p, l, g), archived |-> 0,
                    args |-> merge_docs_json_args(p, l, g)]
        /\ UNCHANGED <<invocations, files, remote, docs_config, deploys>>

\* the caller changes the result it was given
ArchiveMerged ==
    /\ last.op = "merge_docs_json" /\ last.archived = 0
    /\ \E k \in 1..Len(SdkDropdowns(last.out)) :
           last' = [last EXCEPT
                       !.out = WithSdkDropdowns(@, ArchiveAt(SdkDropdowns(@), k)),
                       !.archived = k,
                       !.args = args_after_archive(last.prod, last.local,
                                                   last.gen, k)]
    /\ UNCHANGED <<invocations, files, remote, docs_config, deploys>>

\* merge_sdk_dropdowns returns to its caller
MergeSdkObjects ==
    \E e \in ProdManifests, g \in GeneratedManifests :
        /\ last' = [op |-> "merge_sdk_dropdowns", existing |-> e, new |-> g,
                    out |-> merge_sdk_dropdowns(e, g),
                    args |-> merge_sdk_dropdowns_args(e, g)]
        /\ UNCHANGED <<invocations, files, remote, docs_config, deploys>>

NextObjects ==
    \/ MergeObjects
    \/ ArchiveMerged
    \/ MergeSdkObjects

SpecObjects == Init /\ [][NextObjects]_vars

DocumentSignature ==
    \E params \in ParamLists, returns \in ReturnTexts :
        /\ last' = [op |-> "document_signature", params |-> params,
                    returns |-> returns,
                    out |-> document_signature(SignatureStr(params, returns),
                                               create)]
        /\ UNCHANGED <<invocations, files, remote, docs_config, deploys>>

NextPage ==
    \/ DocumentSignature

SpecPage == Init /\ [][NextPage]_vars

FormatExamples ==
    \E text \in ExampleTexts :
        /\ last' = [op |-> "format_examples_from_meta", text |-> text,
                    examples |-> extract_doctest_examples(text),
                    out |-> format_examples_from_meta(text)]
        /\ UNCHANGED <<invocations, files, remote, docs_config, deploys>>

NextExamples ==
    \/ FormatExamples

SpecExamples == Init /\ [][NextExamples]_vars

NextNav ==
    \/ Load
    \/ UpdateNavigation

SpecNav == Init /\ [][NextNav]_vars

(* ------------------------------------------------------------------ *)
(* deploy_docs_dev.generate_docs: the docs.json it writes              *)
(* ------------------------------------------------------------------ *)
RECURSIVE RewriteGroup(_, _, _)
RewriteGroup(group, old, new) ==
    LET g1 == IF Has(group, "pages")
              THEN Put(group, "pages",
                       [i \in 1..Len(group.pages) |->
                           IF IsPath(group.pages[i])
                           THEN Page(ReplaceSegs(group.pages[i].path, old, new))
                           ELSE RewriteGroup(group.pages[i], old, new)])
              ELSE group
    IN  IF Has(g1, "groups")
        THEN Put(g1, "groups",
                 [i \in 1..Len(g1.groups) |-> RewriteGroup(g1.groups[i], old, new)])
        ELSE g1

\* json.dumps, the two str.replace calls, json.loads (lines 254-257)
RewriteDocs(docs, commit_hash) ==
    LET old == <<sdk, latest>>
        new == <<sdk, commit_hash>>
        RewriteDropdown(d) ==
            LET d1 == IF d.dropdown = latest
                      THEN Put(d, "dropdown", Take(commit_hash, 8)) ELSE d
            IN  IF Has(d1, "groups")
                THEN Put(d1, "groups",
                         [i \in 1..Len(d1.groups) |->
                             RewriteGroup(d1.groups[i], old, new)])
                ELSE d1
        RewriteTab(t) ==
            LET t1 == IF Has(t, "groups")
                      THEN Put(t, "groups",
                               [i \in 1..Len(t.groups) |->
                                   RewriteGroup(t.groups[i], old, new)])
                      ELSE t
            IN  IF Has(t1, "dropdowns")
                THEN Put(t1, "dropdowns",
                         [i \in 1..Len(t1.dropdowns) |->
                             RewriteDropdown(t1.dropdowns[i])])
                ELSE t1
    IN  WithTabs(docs, [i \in 1..Len(TabsOf(docs)) |-> RewriteTab(TabsOf(docs)[i])])

\* tabs.insert(i, x)
InsertAt(seq, i, x) == SubSeq(seq, 1, i - 1) \o <<x>> \o SubSeq(seq, i, Len(seq))

\* lines 214-260: the SDK tab of the generator's docs.json is put into the
\* source docs.json, then every sdk/latest/ path and 'latest' key is rewritten
dev_docs_json(source_docs, mintlifier_config, commit_hash) ==
    LET m == find_sdk_tab(mintlifier_config)
        tabs == TabsOf(source_docs)
        l == find_sdk_tab(source_docs)
        docHits == {i \in 1..Len(tabs) : TabIs(tabs[i], "Documentation")}
        merged ==
            IF m = 0 THEN source_docs
            ELSE LET sdk_tab == TabsOf(mintlifier_config)[m]
                 IN  WithTabs(source_docs,
                        IF l # 0
                        THEN [i \in 1..Len(tabs) |->
                                IF i = l THEN sdk_tab ELSE tabs[i]]
                        ELSE IF docHits # {}
                        THEN InsertAt(tabs,
                                 1 + CHOOSE i \in docHits : \A j \in docHits : i <= j,
                                 sdk_tab)
                        ELSE Append(tabs, sdk_tab))
    IN  RewriteDocs(merged, commit_hash)

(* ------------------------------------------------------------------ *)
(* Deploy invocations                                                  *)
(* ------------------------------------------------------------------ *)
\* docs/target/docs.json as the build left it for deploy.deploy
TargetManifests ==
    {Generate(LocalPlaceholder, latest, g) :
        g \in {NestedGroups(latest), ViaGroups(latest)}}
    \cup {LocalNoSdk}

\* deploy.deploy(pxt_version, pxt_repo_dir, temp_dir, branch)
Deploy ==
    \E branch \in {"dev", "stage"}, pxt_version \in PxtVersions,
       new_docs_json \in TargetManifests, errors \in BOOLEAN :
        LET dv == display_version(pxt_version, branch)
            existing_docs_json == remote[branch].docs
            kept == IF branch = "dev" THEN {} ELSE remote[branch].sdk
            out == IF dv.ok
                   THEN deploy_docs_json(existing_docs_json, new_docs_json,
                                         dv.val, branch)
                   ELSE dv
            pushed == out.ok /\ ~(errors /\ branch # "dev")
        IN  /\ remote' = IF pushed
                         THEN [remote EXCEPT ![branch] =
                                  Tree(out.val, kept \cup {latest, dv.val})]
                         ELSE remote
            /\ last' = [op |-> "deploy", branch |-> branch,
                        version |-> IF dv.ok THEN dv.val ELSE <<>>,
                        ok |-> out.ok, pushed |-> pushed]
            /\ deploys < MaxDeploys
            /\ deploys' = deploys + 1
            /\ UNCHANGED <<invocations, files, docs_config>>

\* deploy_docs_stage.main: parse_version, generate_docs, deploy_to_stage
DeployStage ==
    \E version \in StageVersionArgs,
       local_docs_json \in {LocalPlaceholder, LocalApiRef},
       groups \in {FlatGroups(latest), NestedGroups(latest)},
       mintlifier_ok \in BOOLEAN :
        LET pv == parse_version(version)
            full_version == pv.val[1]
            major_minor_prefix == pv.val[2]
            production_docs_json == remote["main"].docs
            output_sdk ==
                {full_version} \cup
                {d \in remote["main"].sdk :
                    ~(StartsWith(d, major_minor_prefix) /\ d # full_version)}
            generated_docs_json == Generate(local_docs_json, latest, groups)
            merged_docs_json ==
                merge_docs_json(production_docs_json, local_docs_json,
                                generated_docs_json)
            pushed == pv.ok /\ mintlifier_ok
        IN  /\ remote' = IF pushed
                         THEN [remote EXCEPT !["stage"] =
                                  Tree(merged_docs_json, output_sdk \ {latest})]
                         ELSE remote
            /\ last' = [op |-> "deploy_stage", branch |-> "stage",
                        version |-> IF pv.ok THEN full_version ELSE <<>>,
                        ok |-> pushed, pushed |-> pushed]
            /\ deploys < MaxDeploys
            /\ deploys' = deploys + 1
            /\ UNCHANGED <<invocations, files, docs_config>>

\* deploy_docs_dev.main: generate_docs, deploy_to_dev
DeployDev ==
    \E local_docs_json \in {LocalPlaceholder, LocalApiRef},
       groups \in {FlatGroups(latest), NestedGroups(latest)},
       mintlifier_ok \in BOOLEAN, commit_hash \in {abc1234} :
        LET mintlifier_config ==
                IF mintlifier_ok THEN Generate(local_docs_json, latest, groups)
                ELSE local_docs_json
            written == dev_docs_json(local_docs_json, mintlifier_config, commit_hash)
        IN  /\ remote' = [remote EXCEPT !["dev"] = Tree(written, {commit_hash})]
            /\ last' = [op |-> "deploy_dev", branch |-> "dev",
                        version |-> commit_hash, ok |-> TRUE, pushed |-> TRUE]
            /\ deploys < MaxDeploys
            /\ deploys' = deploys + 1
            /\ UNCHANGED <<invocations, files, docs_config>>

\* deploy.deploy_to_prod and deploy_docs_prod.deploy_to_prod
DeployToProd ==
    \E clone_ok \in BOOLEAN :
        /\ remote' = IF clone_ok THEN [remote EXCEPT !["main"] = remote["stage"]]
                     ELSE remote
        /\ last' = [op |-> "deploy_to_prod", branch |-> "main", version |-> <<>>,
                    ok |-> clone_ok, pushed |-> clone_ok]
        /\ deploys < MaxDeploys
        /\ deploys' = deploys + 1
        /\ UNCHANGED <<invocations, files, docs_config>>

\* build_mintlify.deploy_docs(target_dir, target)
DeployDocs ==
    \E branch \in Branches,
       target_docs \in {Generate(LocalPlaceholder, latest, NestedGroups(latest)),
                        LocalNoSdk} :
        /\ remote' = [remote EXCEPT ![branch] = Tree(target_docs, {latest})]
        /\ last' = [op |-> "deploy_docs", branch |-> branch, version |-> <<>>,
                    ok |-> TRUE, pushed |-> TRUE]
        /\ deploys < MaxDeploys
        /\ deploys' = deploys + 1
        /\ UNCHANGED <<invocations, files, docs_config>>

Next ==
    \/ Deploy
    \/ DeployStage
    \/ DeployDev
    \/ DeployToProd
    \/ DeployDocs

Spec == Init /\ [][Next]_vars

(* ------------------------------------------------------------------ *)
(* One deploy invocation, subprocess by subprocess                     *)
(* ------------------------------------------------------------------ *)
\* the entry points: deploy.deploy for dev and stage, deploy_docs_stage.main,
\* deploy_docs_dev.main, deploy_to_prod, build_mintlify.build_mintlify for
\* the three deploy targets, build.build_mintlify
RunPaths ==
    {"deploy_dev", "deploy_stage", "stage", "dev", "prod",
     "build_dev", "build_stage", "build_prod", "build"}

\* the subprocesses and the validation of an entry point, in program order
RunSteps(path) ==
    IF path \in {"deploy_dev", "deploy_stage"}
    THEN <<"rev_parse", "clone_branch", "validate", "add", "diff", "commit", "push">>
    ELSE IF path = "stage"
    THEN <<"clone_source", "venv", "clone_prod", "renderer", "generator",
           "clone_branch", "add", "diff", "commit", "push">>
    ELSE IF path = "dev"
    THEN <<"venv", "rev_parse", "renderer", "generator",
           "clone_branch", "add", "diff", "commit", "push">>
    ELSE IF path = "prod"
    THEN <<"clone_main", "clone_stage", "add", "diff", "commit", "push", "log">>
    ELSE IF path = "build"
    THEN <<"renderer", "generator", "validate">>
    ELSE <<"renderer", "generator", "validate",
           "clone_branch", "add", "diff", "commit", "push">>

\* the branch of pixeltable-docs-www an entry point pushes to
RunBranch(path) ==
    IF path \in {"deploy_dev", "dev", "build_dev"} THEN "dev"
    ELSE IF path \in {"deploy_stage", "stage", "build_stage"} THEN "stage"
    ELSE "main"

\* Fatal with the generator's exit status tested on every path
Fatal_generator_everywhere(path, step) ==
    IF step = "rev_parse" THEN path # "dev"
    ELSE IF step = "clone_branch" THEN path \in {"deploy_dev", "deploy_stage"}
    ELSE step # "log"

\* Fatal with git commit run without check=True
Fatal_commit_unchecked(path, step) ==
    IF step = "generator" THEN path # "dev"
    ELSE IF step = "rev_parse" THEN path # "dev"
    ELSE IF step = "clone_branch" THEN path \in {"deploy_dev", "deploy_stage"}
    ELSE step \notin {"log", "commit"}

\* a non-zero exit of the subprocess ends the invocation: check=True, or
\* a returncode test that raises or exits
Fatal(path, step) ==
    IF step = "generator" THEN path # "dev"
    ELSE IF step = "rev_parse" THEN path # "dev"
    ELSE IF step = "clone_branch" THEN path \in {"deploy_dev", "deploy_stage"}
    ELSE step # "log"

\* validation findings end the invocation
FindingsFatal(path) == path = "deploy_stage"

\* the tree an invocation has assembled in its clone when it runs git add
AssembledTree(path) ==
    LET branch == RunBranch(path)
        generated == Generate(LocalPlaceholder, latest, NestedGroups(latest))
    IN  IF path \in {"deploy_dev", "deploy_stage"}
        THEN LET out == deploy_docs_json(remote[branch].docs, generated,
                                         v0_4_17, branch)
                 kept == IF branch = "dev" THEN {} ELSE remote[branch].sdk
             IN  IF out.ok THEN Ok(Tree(out.val, kept \cup {latest, v0_4_17}))
                 ELSE out
        ELSE IF path = "stage"
        THEN LET pv == parse_version(v0_4_17).val
             IN  Ok(Tree(merge_docs_json(remote["main"].docs, LocalPlaceholder,
                                         generated),
                         ({pv[1]} \cup {d \in remote["main"].sdk :
                                           ~(StartsWith(d, pv[2]) /\ d # pv[1])})
                         \ {latest}))
        ELSE IF path = "dev"
        THEN Ok(Tree(dev_docs_json(LocalPlaceholder,
                                   IF last.generator_failed THEN LocalPlaceholder
                                   ELSE generated,
                                   abc1234),
                     {abc1234}))
        ELSE IF path = "prod" THEN Ok(remote["stage"])
        ELSE Ok(Tree(generated, {latest}))

\* the invocation in progress
Running == last.op = "run" /\ last.status = "running"

\* the step the invocation is at
Step == RunSteps(last.path)[last.i]

\* the record of the invocation after its current step returned normally
Advance(r) ==
    [r EXCEPT !.i = r.i + 1,
              !.status = IF r.i + 1 > Len(RunSteps(r.path)) THEN "done"
                         ELSE "running"]

\* the record of the invocation after its current step ended it
Abort(r) == [r EXCEPT !.status = "failed"]

\* the record after the subprocess of the current step exited with rc
Exited(r, rc) ==
    IF rc = 0 THEN Advance(r)
    ELSE LET r1 == [r EXCEPT !.nonzero = r.nonzero \cup {RunSteps(r.path)[r.i]}]
         IN  IF Fatal(r.path, RunSteps(r.path)[r.i]) THEN Abort(r1)
             ELSE Advance(r1)

ExitCodes == {0, 1}

\* main of an entry point starts
StartRun ==
    \E path \in RunPaths :
        /\ ~Running
        /\ deploys < MaxDeploys
        /\ deploys' = deploys + 1
        /\ last' = [op |-> "run", path |-> path, branch |-> RunBranch(path),
                    i |-> 1, status |-> "running", tree |-> <<>>,
                    commits |-> 0, pushes |-> 0, changed |-> FALSE,
                    nonzero |-> {}, generator_failed |-> FALSE,
                    findings |-> FALSE, fallback |-> FALSE]
        /\ UNCHANGED <<invocations, files, remote, docs_config>>

\* git clone of the sources, git rev-parse, venv and pip, the notebook
\* renderer, the clones of main and stage, git log
RunSetup ==
    \E rc \in ExitCodes :
        /\ Running
        /\ Step \in {"clone_source", "rev_parse", "venv", "renderer",
                     "clone_prod", "clone_main", "clone_stage", "log"}
        /\ last' = Exited(last, rc)
        /\ UNCHANGED <<invocations, files, remote, docs_config, deploys>>

\* mintlifier
RunGenerator ==
    \E rc \in ExitCodes :
        /\ Running
        /\ Step = "generator"
        /\ last' = Exited([last EXCEPT !.generator_failed = rc # 0], rc)
        /\ UNCHANGED <<invocations, files, remote, docs_config, deploys>>

\* validate_mintlify_docs and what its caller does with the findings
Validate ==
    \E errors \in BOOLEAN, rc \in ExitCodes :
        /\ Running
        /\ Step = "validate"
        /\ last' = LET r == [last EXCEPT !.findings = errors,
                                         !.nonzero = IF rc = 0 THEN last.nonzero
                                                     ELSE last.nonzero \cup {"validate"}]
                   IN  IF errors /\ FindingsFatal(last.path) THEN Abort(r)
                       ELSE Advance(r)
        /\ UNCHANGED <<invocations, files, remote, docs_config, deploys>>

\* git clone -b <branch>; where the code has the fallback, a failure is
\* followed by a clone of the default branch and git checkout -b <branch>
CloneBranch ==
    \E rc \in ExitCodes, rc_fallback \in ExitCodes :
        /\ Running
        /\ Step = "clone_branch"
        /\ last' = LET r == Exited(last, rc)
                   IN  IF rc # 0 /\ r.status = "running"
                       THEN IF rc_fallback = 0 THEN [r EXCEPT !.fallback = TRUE]
                            ELSE Abort([r EXCEPT !.fallback = TRUE,
                                                 !.nonzero = r.nonzero
                                                     \cup {"create_branch"}])
                       ELSE r
        /\ UNCHANGED <<invocations, files, remote, docs_config, deploys>>

\* the files are put into the clone, then git add -A
GitAdd ==
    \E rc \in ExitCodes :
        /\ Running
        /\ Step = "add"
        /\ last' = LET assembled == AssembledTree(last.path)
                   IN  IF assembled.ok
                       THEN Exited([last EXCEPT !.tree = assembled.val], rc)
                       ELSE Abort(last)
        /\ UNCHANGED <<invocations, files, remote, docs_config, deploys>>

\* git diff --staged --quiet: exit status 1 says there are changes
GitDiff ==
    /\ Running
    /\ Step = "diff"
    /\ last' = LET changed == last.tree # remote[last.branch]
               IN  IF changed THEN Advance([last EXCEPT !.changed = TRUE])
                   ELSE [last EXCEPT !.status = "done"]
    /\ UNCHANGED <<invocations, files, remote, docs_config, deploys>>

GitCommit ==
    \E rc \in ExitCodes :
        /\ Running
        /\ Step = "commit"
        /\ last' = Exited([last EXCEPT !.commits =
                                IF rc = 0 THEN last.commits + 1 ELSE last.commits],
                          rc)
        /\ UNCHANGED <<invocations, files, remote, docs_config, deploys>>

GitPush ==
    \E rc \in ExitCodes :
        /\ Running
        /\ Step = "push"
        /\ last' = Exited([last EXCEPT !.pushes =
                                IF rc = 0 THEN last.pushes + 1 ELSE last.pushes],
                          rc)
        /\ remote' = IF rc = 0 THEN [remote EXCEPT ![last.branch] = last.tree]
                     ELSE remote
        /\ UNCHANGED <<invocations, files, docs_config, deploys>>

NextRun ==
    \/ StartRun
    \/ RunSetup
    \/ RunGenerator
    \/ Validate
    \/ CloneBranch
    \/ GitAdd
    \/ GitDiff
    \/ GitCommit
    \/ GitPush

SpecRun == Init /\ [][NextRun]_vars

(* ------------------------------------------------------------------ *)
(* deploy.deploy started by two operators at the same time             *)
(* ------------------------------------------------------------------ *)
pxt_0_5_1_dev == <<"0", ".", "5", ".", "1", ".", "d", "e", "v", "2">>
v0_5_0 == <<"v", "0", ".", "5", ".", "0">>

\* pxt_version arguments of the concurrent deploys
DeployArgs == {pxt_0_4_17, pxt_0_4_18_dev, pxt_0_5_0_dev, pxt_0_5_1_dev}

\* the branches they deploy to
DeployBranches == {"stage", "dev"}

\* a clone or an assembled tree that does not exist yet
NoTree == Tree(EmptyDocs, {})

\* the merge reads the branch head as it is on the remote now
MergeBase_refetched(p) == remote[invocations[p].branch]

\* existing_docs_json and the kept sdk/ come from the operator's clone
MergeBase(p) == invocations[p].base

\* the invocation of operator p ends with an exception or sys.exit
Failed(p, error) ==
    [invocations EXCEPT ![p] = [@ EXCEPT !.status = "failed", !.error = error]]

\* deploy, up to the clone: docs/target must exist, then display_version
BeginDeploy(p) ==
    \E pxt_version \in DeployArgs, branch \in DeployBranches,
       target_exists \in BOOLEAN :
        LET dv == display_version(pxt_version, branch)
        IN  /\ invocations[p].status = "idle"
            /\ invocations' =
                 [invocations EXCEPT ![p] =
                    [status |-> IF target_exists /\ dv.ok THEN "started"
                                ELSE "failed",
                     error |-> IF ~target_exists THEN "SystemExit"
                               ELSE IF dv.ok THEN "none" ELSE dv.err,
                     pxt_version |-> pxt_version, branch |-> branch,
                     target_exists |-> target_exists,
                     version |-> IF target_exists /\ dv.ok THEN dv.val ELSE <<>>,
                     cloned |-> FALSE, base |-> NoTree, tree |-> NoTree,
                     pushed |-> FALSE]]
            /\ UNCHANGED <<remote, docs_config, last, deploys, files>>

\* git rev-parse HEAD, then git clone -b <branch>, both with check=True
CloneDocsRepo(p) ==
    \E rc \in ExitCodes :
        /\ invocations[p].status = "started"
        /\ invocations' =
             IF rc # 0 THEN Failed(p, "CalledProcessError")
             ELSE [invocations EXCEPT ![p] =
                      [@ EXCEPT !.status = "cloned", !.cloned = TRUE,
                                !.base = remote[invocations[p].branch]]]
        /\ UNCHANGED <<remote, docs_config, last, deploys, files>>

\* the clone is cleaned, docs/target copied in, the dropdowns merged,
\* docs.json written and validated
AssembleDocs(p) ==
    \E errors \in BOOLEAN :
        LET inv == invocations[p]
            out == deploy_docs_json(MergeBase(p).docs,
                       Generate(LocalPlaceholder, latest, NestedGroups(latest)),
                       inv.version, inv.branch)
            kept == IF inv.branch = "dev" THEN {} ELSE MergeBase(p).sdk
        IN  /\ inv.status = "cloned"
            /\ invocations' =
                 IF ~out.ok THEN Failed(p, out.err)
                 ELSE IF errors /\ inv.branch # "dev" THEN Failed(p, "SystemExit")
                 ELSE [invocations EXCEPT ![p] =
                          [@ EXCEPT !.status = "assembled",
                                    !.tree = Tree(out.val,
                                                  kept \cup {latest, inv.version})]]
            /\ UNCHANGED <<remote, docs_config, last, deploys, files>>

\* git add, git diff --staged, git commit, git push origin <branch>: the
\* remote takes the push only if its head is still the commit that was cloned
PushDocs(p) ==
    \E rc \in ExitCodes :
        LET inv == invocations[p]
            accepted == rc = 0 /\ remote[inv.branch] = inv.base
        IN  /\ inv.status = "assembled"
            /\ invocations' =
                 IF inv.tree = inv.base
                 THEN [invocations EXCEPT ![p] = [@ EXCEPT !.status = "done"]]
                 ELSE IF accepted
                 THEN [invocations EXCEPT ![p] =
                          [@ EXCEPT !.status = "done", !.pushed = TRUE]]
                 ELSE Failed(p, "CalledProcessError")
            /\ remote' = IF inv.tree # inv.base /\ accepted
                         THEN [remote EXCEPT ![inv.branch] = inv.tree]
                         ELSE remote
            /\ UNCHANGED <<docs_config, last, deploys, files>>

NextDeploys ==
    \/ \E p \in Operators : BeginDeploy(p)
    \/ \E p \in Operators : CloneDocsRepo(p)
    \/ \E p \in Operators : AssembleDocs(p)
    \/ \E p \in Operators : PushDocs(p)

SpecDeploys == Init /\ [][NextDeploys]_vars

(* ------------------------------------------------------------------ *)
(* convert_notebooks: incremental conversion of notebooks to MDX       *)
(* ------------------------------------------------------------------ *)
MaxTime == 4

\* a line of an MDX file
Line(kind, text) == [kind |-> kind, text |-> text]

Fence == Line("fence", "---")

\* the body Quarto renders for a notebook
NotebookBody(n) ==
    IF n = "tables" THEN <<Line("text", n), Line("td", "<td>")>>
    ELSE <<Line("text", n)>>

\* quarto render: the H1 of the notebook becomes front matter with a title
QuartoOutput(n) ==
    IF n = "scratch" THEN NotebookBody(n)
    ELSE <<Fence, Line("title", n), Fence>> \o NotebookBody(n)

\* the index of the line that closes the front matter, 0 without a match
\* of ^---\n(.*?)\n---\n
FrontmatterEnd(content) ==
    LET ends == {j \in 3..Len(content) : content[j] = Fence}
    IN  IF Len(content) = 0 \/ content[1] # Fence \/ ends = {} THEN 0
        ELSE CHOOSE j \in ends : \A k \in ends : j <= k

\* the title line of the front matter, 0 if there is none
TitleLine(content, end) ==
    LET hits == {i \in 2..(end - 1) : content[i].kind \in {"title", "quoted_title"}}
    IN  IF hits = {} THEN 0 ELSE CHOOSE i \in hits : \A k \in hits : i <= k

\* front matter with the quoted title and the icon, the badge links, the Tip
EnhancedFrontmatter(title) ==
    <<Fence, Line("quoted_title", title), Line("icon", "notebook"), Fence,
      Line("badges", title), Line("text", ""), Line("tip", "<Tip>")>>

\* the rewrites of the content after the front matter: table cells
RewriteLine(line) ==
    IF line.kind = "td" THEN Line("styled_td", "<td style>") ELSE line

\* postprocess_mdx: what the file holds afterwards, and whether it was written
postprocess_mdx(content, notebook_exists) ==
    LET end == FrontmatterEnd(content)
        t == IF end = 0 THEN 0 ELSE TitleLine(content, end)
    IN  IF end = 0 \/ t = 0 \/ ~notebook_exists
        THEN [written |-> FALSE, content |-> content]
        ELSE [written |-> TRUE,
              content |-> EnhancedFrontmatter(content[t].text)
                          \o [i \in 1..(Len(content) - end) |->
                                 RewriteLine(content[end + i])]]

\* notebooks_to_convert: no MDX yet, or the notebook is newer than its MDX
NeedsConversion(f, n) ==
    \/ n \notin DOMAIN f.output
    \/ f.notebooks[n] > f.output[n].mtime

\* convert_notebooks_to_dir with quarto exiting with rc, run at time now
convert_notebooks_to_dir(f, rc, now) ==
    LET notebooks_to_convert == {n \in DOMAIN f.notebooks : NeedsConversion(f, n)}
        rendered == [n \in DOMAIN f.output \cup notebooks_to_convert |->
                        IF n \in notebooks_to_convert
                        THEN [content |-> QuartoOutput(n), mtime |-> now]
                        ELSE f.output[n]]
        processed == [n \in DOMAIN rendered |->
                        LET r == postprocess_mdx(rendered[n].content,
                                                 n \in DOMAIN f.notebooks)
                        IN  IF r.written THEN [content |-> r.content, mtime |-> now]
                            ELSE rendered[n]]
    IN  IF notebooks_to_convert = {} THEN [f EXCEPT !.now = now]
        ELSE IF rc # 0
        THEN [f EXCEPT !.now = now, !.pre = f.pre \cup notebooks_to_convert]
        ELSE [f EXCEPT !.now = now, !.pre = f.pre \cup notebooks_to_convert,
                       !.output = processed]

\* a notebook is saved
EditNotebook ==
    \E n \in NotebookNames :
        /\ files.now < MaxTime
        /\ files' = [files EXCEPT !.now = files.now + 1,
                                  !.notebooks[n] = files.now + 1]
        /\ last' = [op |-> "edit", notebook |-> n]
        /\ UNCHANGED <<remote, docs_config, deploys, invocations>>

ConvertNotebooks ==
    \E rc \in ExitCodes :
        /\ files.now < MaxTime
        /\ files' = convert_notebooks_to_dir(files, rc, files.now + 1)
        /\ last' = [op |-> "convert_notebooks_to_dir", rc |-> rc,
                    converted |-> {n \in NotebookNames : NeedsConversion(files, n)}]
        /\ UNCHANGED <<remote, docs_config, deploys, invocations>>

NextNotebooks ==
    \/ EditNotebook
    \/ ConvertNotebooks

SpecNotebooks == Init /\ [][NextNotebooks]_vars

(* ------------------------------------------------------------------ *)
(* Properties                                                          *)
(* ------------------------------------------------------------------ *)
\* a stage deploy has just pushed
StageDeployed ==
    last.op \in {"deploy", "deploy_stage"} /\ last.branch = "stage" /\ last.pushed

StageKeys == KeysOf(SdkDropdowns(remote["stage"].docs))

InSeq(x, seq) == \E i \in 1..Len(seq) : seq[i] = x

\* the page paths of a group, at every depth under 'pages' and 'groups'
RECURSIVE Leaves(_)
RECURSIVE LeavesOfList(_)
Leaves(group) ==
    LeavesOfList(IF Has(group, "pages") THEN group.pages ELSE <<>>)
    \o LeavesOfList(IF Has(group, "groups") THEN group.groups ELSE <<>>)

LeavesOfList(entries) ==
    IF entries = <<>> THEN <<>>
    ELSE (IF IsPath(entries[1]) THEN <<entries[1].path>> ELSE Leaves(entries[1]))
         \o LeavesOfList(Tail(entries))

\* the page paths of a dropdown
DropdownLeaves(d) == LeavesOfList(IF Has(d, "groups") THEN d.groups ELSE <<>>)

\* the page paths of a manifest
RECURSIVE LeavesOfDropdowns(_)
LeavesOfDropdowns(dds) ==
    IF dds = <<>> THEN <<>>
    ELSE DropdownLeaves(dds[1]) \o LeavesOfDropdowns(Tail(dds))

RECURSIVE LeavesOfTabs(_)
LeavesOfTabs(tabs) ==
    IF tabs = <<>> THEN <<>>
    ELSE LeavesOfList(IF Has(tabs[1], "groups") THEN tabs[1].groups ELSE <<>>)
         \o LeavesOfDropdowns(DropdownsOf(tabs[1]))
         \o LeavesOfTabs(Tail(tabs))

\* C1: after a stage deploy of version V the merged dropdown list holds V
\* and no other key that starts with V's major.minor prefix.
C1_PrefixEviction ==
    StageDeployed =>
        LET V == last.version
            P == Take(V, VersionMatchLen(V))
        IN  /\ InSeq(V, StageKeys)
            /\ \A i \in 1..Len(StageKeys) :
                   StartsWith(StageKeys[i], P) => StageKeys[i] = V

\* a key that parses as a version: v?INT(.INT)*
IsVersionKey(k) ==
    LET stripped == IF StartsWith(k, <<"v">>) THEN Tail(k) ELSE k
        parts == Split(stripped, ".")
    IN  k # latest /\ \A i \in 1..Len(parts) : IsInt(parts[i])

\* descending version order: 'latest' first, version keys by integer tuple,
\* unparsable keys after every version key
VersionOrdered(keys) ==
    \A i, j \in 1..Len(keys) :
        i < j =>
            /\ keys[j] # latest \/ keys[i] = latest
            /\ (IsVersionKey(keys[i]) /\ IsVersionKey(keys[j]))
                   => ~TupleLess(sort_key([dropdown |-> keys[i]]),
                                 sort_key([dropdown |-> keys[j]]))
            /\ IsVersionKey(keys[j])
                   => (IsVersionKey(keys[i]) \/ keys[i] = latest)

\* C2: the dropdown list a merge returns is in descending version order,
\* 'latest' first and unparsable keys last.
C2_MergedListSorted ==
    /\ (last.op = "merge_docs_json"
            /\ SdkDropdowns(last.prod) # <<>> /\ find_sdk_tab(last.gen) # 0)
           => VersionOrdered(KeysOf(SdkDropdowns(last.out.val)))
    /\ (last.op = "deploy_docs_json" /\ last.branch = "stage" /\ last.out.ok)
           => VersionOrdered(KeysOf(SdkDropdowns(last.out.val)))
    /\ last.op = "sort_dropdowns" => VersionOrdered(KeysOf(last.out.val))

\* no 'latest' dropdown, no page under sdk/latest/, no sdk/latest directory
NoLatest(tree) ==
    /\ latest \notin tree.sdk
    /\ ~InSeq(latest, KeysOf(SdkDropdowns(tree.docs)))
    /\ \A i \in 1..Len(LeavesOfTabs(TabsOf(tree.docs))) :
           ~StartsWith(LeavesOfTabs(TabsOf(tree.docs))[i], <<sdk, latest>>)

\* C3: whatever a deploy pushes to dev, stage or main holds no 'latest'
\* content.
C3_NoLatestPushed ==
    last.op \in {"deploy", "deploy_stage", "deploy_dev", "deploy_to_prod",
                 "deploy_docs"}
        => (last.pushed => NoLatest(remote[last.branch]))

UniqueKeys(dds) ==
    \A i, j \in 1..Len(dds) : dds[i].dropdown = dds[j].dropdown => i = j

\* C4: the SDK tab never holds two dropdowns with the same key.
C4_OneDropdownPerKey == UniqueKeys(SdkDropdowns(docs_config))

WithKey(dds, k) == SelectSeq(dds, LAMBDA d : d.dropdown = k)

\* C6: for a key that Prod and Generated both have, the merged list holds
\* exactly the Generated dropdown.
C6_GeneratedWins ==
    last.op = "merge_docs_json" =>
        \A i \in 1..Len(SdkDropdowns(last.gen)) :
            LET d == SdkDropdowns(last.gen)[i]
            IN  InSeq(d.dropdown, KeysOf(SdkDropdowns(last.prod)))
                    => WithKey(SdkDropdowns(last.out.val), d.dropdown) = <<d>>

\* C7: after a stage deploy of version V the merged list has an entry keyed
\* V, and every page path of that entry lies under sdk/V/.
C7_RekeyedToVersion ==
    StageDeployed =>
        LET V == last.version
            entries == WithKey(SdkDropdowns(remote["stage"].docs), V)
        IN  /\ Len(entries) = 1
            /\ \A i \in 1..Len(DropdownLeaves(entries[1])) :
                   StartsWith(DropdownLeaves(entries[1])[i], <<sdk, V>>)

\* a group with every page path blanked: what is left is the non-page content
RECURSIVE Skeleton(_)
Skeleton(group) ==
    LET g1 == IF Has(group, "pages")
              THEN Put(group, "pages",
                       [i \in 1..Len(group.pages) |->
                           IF IsPath(group.pages[i]) THEN Page(<<>>)
                           ELSE Skeleton(group.pages[i])])
              ELSE group
    IN  IF Has(g1, "groups")
        THEN Put(g1, "groups", [i \in 1..Len(g1.groups) |-> Skeleton(g1.groups[i])])
        ELSE g1

\* C8: replace_paths rewrites the prefix of every page path of the group, at
\* any depth, and leaves everything else as it was, for every group shape.
C8_ReplacePathsEverywhere ==
    last.op = "replace_paths" =>
        /\ last.out.ok
        /\ Skeleton(last.out.val) = Skeleton(last.arg)
        /\ Leaves(last.out.val) =
               [i \in 1..Len(Leaves(last.arg)) |->
                   ReplaceSegs(Leaves(last.arg)[i], <<sdk, latest>>,
                               <<sdk, last.version>>)]

\* the tabs that are not the SDK tab, in order
NonSdkTabs(docs) == SelectSeq(TabsOf(docs), LAMBDA t : ~TabIs(t, SDK_TAB))

\* a dict without one key
Without(d, k) == [x \in DOMAIN d \ {k} |-> d[x]]

\* C9: the merged manifest has Local's settings and Local's non-SDK tabs, and
\* its SDK tab is the Generated one (the dropdown list aside) whenever
\* Generated has an SDK tab.
C9_LocalFrame ==
    last.op = "merge_docs_json" =>
        /\ Without(last.out.val, "navigation") = Without(last.local, "navigation")
        /\ NonSdkTabs(last.out.val) = NonSdkTabs(last.local)
        /\ find_sdk_tab(last.gen) # 0 =>
               /\ find_sdk_tab(last.out.val) # 0
               /\ Without(TabsOf(last.out.val)[find_sdk_tab(last.out.val)], "dropdowns")
                      = Without(TabsOf(last.gen)[find_sdk_tab(last.gen)], "dropdowns")

\* C10: a merge whose Generated manifest has no SDK tab fails and returns
\* no manifest.
C10_AbortWithoutGeneratedSdk ==
    (last.op = "merge_docs_json" /\ find_sdk_tab(last.gen) = 0) => ~last.out.ok

\* the existing manifest carries no history: no SDK tab, or one without dropdowns
NoHistory(existing) == SdkDropdowns(existing) = <<>>

\* C11: when the existing deployed manifest has no SDK tab, or an SDK tab
\* without dropdowns, the merge raises no error and the result's dropdown list
\* is exactly the Generated dropdowns
C11_FirstDeploy ==
    /\ (last.op = "merge_docs_json" /\ NoHistory(last.prod)
            /\ find_sdk_tab(last.gen) # 0)
           => /\ last.out.ok
              /\ SdkDropdowns(last.out.val) = SdkDropdowns(last.gen)
    /\ (last.op = "deploy_docs_json" /\ last.branch = "stage"
            /\ NoHistory(last.prod)
            /\ deploy_docs_json(last.prod, last.gen, last.version, "dev").ok)
           => /\ last.out.ok
              /\ SdkDropdowns(last.out.val) =
                     sort_dropdowns(SdkDropdowns(
                         deploy_docs_json(last.prod, last.gen, last.version, "dev").val))

\* seq rearranged by the permutation f of its positions
Permuted(seq, f) == [i \in 1..Len(seq) |-> seq[f[i]]]

\* C12: the dropdown sort is a total order on unique keys: a list with
\* pairwise distinct keys sorts to the same sequence from every input order
C12_SortTotalOrder ==
    (last.op = "sort_dropdowns" /\ UniqueKeys(last.arg))
        => \A f \in Permutations(1..Len(last.arg)) :
               sort_dropdowns(Permuted(last.arg, f)) = last.out.val

\* the first two numeric components of a version key
MajorMinor(key) ==
    LET parts == Split(IF StartsWith(key, <<"v">>) THEN Tail(key) ELSE key, ".")
    IN  SubSeq(parts, 1, IF Len(parts) < 2 THEN Len(parts) ELSE 2)

\* the hosted tree a stage deploy builds on
StageBase ==
    IF last'.op = "deploy_stage" THEN remote["main"] ELSE remote["stage"]

\* C13: a stage deploy of vX.Y.Z preserves every existing dropdown and every
\* existing sdk/<version> directory whose major.minor differs from X.Y
C13_OtherLinesPreserved ==
    [][(last'.op \in {"deploy", "deploy_stage"} /\ last'.branch = "stage"
            /\ last'.pushed)
        => /\ \A d \in StageBase.sdk :
                  (d # latest /\ MajorMinor(d) # MajorMinor(last'.version))
                      => d \in remote'["stage"].sdk
           /\ \A i \in 1..Len(SdkDropdowns(StageBase.docs)) :
                  LET k == SdkDropdowns(StageBase.docs)[i].dropdown
                  IN  (k # latest /\ MajorMinor(k) # MajorMinor(last'.version))
                          => InSeq(k, KeysOf(SdkDropdowns(remote'["stage"].docs)))]_vars

\* one or more digits
IsDigits(x) == x # <<>> /\ \A i \in 1..Len(x) : x[i] \in Digits

\* the numeric components of a string of the form v?MAJOR.MINOR(.PATCH)?
Components(version) ==
    Split(IF StartsWith(version, <<"v">>) THEN Tail(version) ELSE version, ".")

\* the string has the form v?MAJOR.MINOR(.PATCH)?
IsVersionString(version) ==
    /\ Len(Components(version)) \in {2, 3}
    /\ \A i \in 1..Len(Components(version)) : IsDigits(Components(version)[i])

\* C14: for a string of the form v?MAJOR.MINOR(.PATCH)? parse_version returns
\* (full, prefix), full being the input with exactly one leading 'v' and
\* prefix being 'v' and the first two numeric components; parse_version of
\* full returns the same pair
C14_ParseVersion ==
    (last.op = "parse_version" /\ IsVersionString(last.arg))
        => /\ last.out.ok
           /\ last.out.val[1] = <<"v">> \o Join(Components(last.arg), ".")
           /\ last.out.val[2] =
                  <<"v">> \o Join(SubSeq(Components(last.arg), 1, 2), ".")
           /\ parse_version(last.out.val[1]) = last.out

C14_Witness ==
    /\ last.op = "parse_version" /\ last.arg = pxt_0_3_14
    /\ last.out = Ok(<<v0_3_14, <<"v", "0", ".", "3">>>>)

\* C15: for a string that is not of the form v?MAJOR.MINOR(.PATCH)?
\* parse_version raises and returns no version pair
C15_InvalidVersionRejected ==
    (last.op = "parse_version" /\ ~IsVersionString(last.arg)) => ~last.out.ok

\* the invocation was ended by the step it is at
EndedAt(step) == last.status = "failed" /\ Step = step

\* C16: on a stage or prod deploy, validation findings mean no commit and no
\* push in that invocation; on a dev deploy findings do not end it
C16_FindingsGatePublishing ==
    (last.op = "run" /\ last.findings)
        => /\ last.branch \in {"stage", "main"}
                  => (last.commits = 0 /\ last.pushes = 0)
           /\ last.branch = "dev" => ~EndedAt("validate")

OneCommitOnePush ==
    /\ last.commits <= 1 /\ last.pushes <= 1
    /\ last.pushes <= last.commits
    /\ last.commits > 0 => last.changed

Tolerated(path) ==
    {"validate"}
    \cup (IF path = "dev" THEN {"generator", "rev_parse"} ELSE {})
    \cup (IF path \in {"stage", "dev", "build_dev", "build_stage", "build_prod"}
          THEN {"clone_branch"} ELSE {})
    \cup (IF path = "prod" THEN {"log"} ELSE {})

C18_ProdIsPromotion ==
    (last.op \in {"deploy", "deploy_stage", "deploy_dev", "deploy_to_prod",
                  "deploy_docs"}
        /\ last.branch = "main" /\ last.pushed)
        => /\ remote["main"] = remote["stage"]
           /\ last.op = "deploy_to_prod"

\* the fetch of the last generation step failed
FetchFailed ==
    \/ last.op = "generate_changelog_to_dir" /\ ~last.response.ok
    \/ last.op = "generate_contributors_page"
           /\ \E i \in 1..Len(last.pages) : ~last.pages[i].ok

ChangelogWritten ==
    CHOOSE f \in last.after.files : f[1] = "changelog.mdx"

\* the last changelog generation wrote a changelog
ChangelogGenerated ==
    /\ last.op = "generate_changelog_to_dir" /\ last.out.ok
    /\ last.response.val # <<>>

\* every line of every release body stands in the changelog with its text at
\* its place, the headings of the levels in from moved down by levels, the
\* other lines at their level
HeadingsMoved(from, by) ==
    \A i \in 1..Len(last.response.val) :
        LET before == last.response.val[i].body.lines
            after == ChangelogWritten[2][i].body
        IN  /\ Len(after) = Len(before)
            /\ \A j \in 1..Len(before) :
                   /\ after[j].text = before[j].text
                   /\ after[j].level = IF before[j].level \in from
                                        THEN before[j].level + by
                                        ELSE before[j].level

\* C21 as stated: every heading inside a release body is demoted by exactly
\* one level, at the start of the body and in the middle
C21_HeadingsDemotedByOne ==
    ChangelogGenerated
        => HeadingsMoved(Nat \ {0}, 1)

\* C21: every level-2 heading inside a release body becomes a level-4
\* heading, at the start of the body and in the middle, so that it nests
\* under the level-3 heading of its release; headings of other levels and
\* other lines keep their level
C21_H2DemotedToH4 ==
    ChangelogGenerated
        => /\ HeadingsMoved({2}, 2)
           /\ \A i \in 1..Len(last.response.val) :
                  /\ ChangelogWritten[2][i].level = 3
                  /\ \A j \in 1..Len(last.response.val[i].body.lines) :
                         last.response.val[i].body.lines[j].level = 2
                             => ChangelogWritten[2][i].body[j].level
                                    > ChangelogWritten[2][i].level

C21_Witness ==
    /\ ChangelogGenerated
    /\ \E i \in 1..Len(last.response.val) :
           LET before == last.response.val[i].body.lines
           IN  /\ Len(before) > 1 /\ before[1].level = 2
               /\ \E j \in 2..Len(before) : before[j].level = 2
               /\ \E j \in 2..Len(before) : before[j].level = 3
               /\ ChangelogWritten[2][i].body[1].level = 4

\* the lines of the signature block rendered last
SignatureLines == Split(last.out.val.code, "\n")

Indent == <<" ", " ", " ", " ">>

\* C22: the signature renders by the number of its top-level parameters:
\* none as name(), one on one line as name(p), two or more on one indented
\* line each, in order, each followed by a comma except the last; a comma
\* inside brackets or a string literal never splits a parameter
C22_SignatureByParamCount ==
    last.op = "document_signature"
        => /\ last.out.ok
           /\ LET n == Len(last.params)
              IN  CASE n = 0 ->
                         /\ Len(SignatureLines) = 2
                         /\ StartsWith(SignatureLines[1], create \o <<"(", ")">>)
                    [] n = 1 ->
                         /\ Len(SignatureLines) = 2
                         /\ StartsWith(SignatureLines[1],
                                create \o <<"(">> \o last.params[1] \o <<")">>)
                    [] OTHER ->
                         /\ Len(SignatureLines) = n + 3
                         /\ SignatureLines[1] = create \o <<"(">>
                         /\ \A i \in 1..n :
                                SignatureLines[i + 1]
                                    = Indent \o last.params[i]
                                          \o (IF i < n THEN <<",">> ELSE <<>>)
                         /\ StartsWith(SignatureLines[n + 2], <<")">>)

\* the prompt lines of the block scanned last: a ">>>" line, or a "..." line
\* that continues one
PromptLines ==
    {j \in 1..Len(last.text) :
        /\ last.text[j] \in {">>>", "..."}
        /\ \E p \in 1..j : /\ last.text[p] = ">>>"
                          /\ \A m \in p..j : last.text[m] \in {">>>", "..."}}

\* the prompt lines and the single blank lines between a prompt line and a
\* ">>>" line
PromptLinesAcrossBlank ==
    PromptLines
    \cup {j \in 2..(Len(last.text) - 1) :
             /\ last.text[j] = ""
             /\ j - 1 \in PromptLines
             /\ last.text[j + 1] = ">>>"}

\* the output lines: the text lines that follow a prompt line directly
OutputLines ==
    {j \in 1..Len(last.text) :
        /\ last.text[j] = "text"
        /\ \E g \in PromptLines :
               g < j /\ \A m \in (g + 1)..j : last.text[m] = "text"}

\* the numbers of a set, ascending
Ascending(S) ==
    CHOOSE f \in [1..Cardinality(S) -> S] :
        \A a, b \in 1..Cardinality(S) : a < b => f[a] < f[b]

IsSuffix(p, d) ==
    Len(p) <= Len(d) /\ SubSeq(d, Len(d) - Len(p) + 1, Len(d)) = p

\* the examples extracted last are, in order, the maximal runs of the lines of
\* members: each has the code of its run, the prose before its run at the end
\* of its description, and is rendered with one python block of its own
OneExamplePerGroup(members) ==
    LET starts == Ascending({j \in members : j - 1 \notin members})
        Run(j) == {m \in members : m >= j /\ \A x \in j..m : x \in members}
        Prose(k) == {j \in 1..Len(last.text) :
                        /\ last.text[j] = "text" /\ j \notin OutputLines
                        /\ j < starts[k]
                        /\ k > 1 => j > starts[k - 1]}
    IN  /\ Len(last.examples) = Len(starts)
        /\ Len(last.out) = Len(starts)
        /\ \A k \in 1..Len(starts) :
               /\ last.examples[k].code = Ascending(Run(starts[k]) \cap PromptLines)
               /\ IsSuffix(Ascending(Prose(k)), last.examples[k].description)
               /\ last.out[k].description = last.examples[k].description
               /\ last.out[k].blocks = <<Fenced("python", last.examples[k].code)>>

\* C23 as stated: one example per group of consecutive prompt lines, in
\* source order, the prose before a group attached as its description, each
\* rendered with its own fenced python block
C23_OneExamplePerPromptRun ==
    last.op = "format_examples_from_meta" => OneExamplePerGroup(PromptLines)

\* C23: one example per group of prompt lines, a single blank line directly
\* followed by a ">>>" line not ending the group, in source order, the prose
\* before a group attached as its description, each rendered with its own
\* fenced python block
C23_OneExamplePerGroup ==
    last.op = "format_examples_from_meta"
        => OneExamplePerGroup(PromptLinesAcrossBlank)

C23_Witness ==
    /\ last.op = "format_examples_from_meta"
    /\ last.text = <<">>>", "", "text", ">>>">>
    /\ Len(last.out) = 2
    /\ last.out[2].description = <<3>>
    /\ last.out[1].blocks # last.out[2].blocks

\* C24: no output line after a prompt block appears in the code, the
\* description or the output of any example, and every output field is empty
C24_OutputDiscarded ==
    last.op = "format_examples_from_meta"
        => \A k \in 1..Len(last.examples) :
               /\ last.examples[k].output = <<>>
               /\ \A j \in OutputLines :
                      /\ \A c \in 1..Len(last.examples[k].code) :
                             last.examples[k].code[c] # j
                      /\ \A d \in 1..Len(last.examples[k].description) :
                             last.examples[k].description[d] # j

\* C25: the merge shares no mutable state with its inputs: when it has
\* returned, and after later changes to its result, the Prod, Local and
\* Generated manifests passed in are as they were before the call
C25_NoSharedState ==
    /\ last.op = "merge_docs_json"
           => /\ last.args.production_docs = last.prod
              /\ last.args.local_docs = last.local
              /\ last.args.generated_docs = last.gen
    /\ last.op = "merge_sdk_dropdowns"
           => /\ last.args.existing = last.existing
              /\ last.args.new = last.new

\* the step is a successful stage deploy by deploy.deploy or deploy_docs_stage
StageDeployStep ==
    /\ last'.op \in {"deploy", "deploy_stage"}
    /\ last'.branch = "stage" /\ last'.pushed

\* the dropdown keys of a tree's docs.json
DropdownKeys(tree) ==
    {SdkDropdowns(tree.docs)[i].dropdown : i \in 1..Len(SdkDropdowns(tree.docs))}

\* C26: staging never loses version history: a successful stage deploy
\* leaves on stage a dropdown and an sdk/<version> directory for the version
\* it deployed and for every version stage held before whose major.minor
\* line it did not redeploy, and a prod promotion leaves stage as it was
C26_StageHistoryKept ==
    [][/\ StageDeployStep
           => /\ last'.version \in remote'["stage"].sdk
              /\ last'.version \in DropdownKeys(remote'["stage"])
              /\ \A d \in remote["stage"].sdk :
                     (d # latest /\ MajorMinor(d) # MajorMinor(last'.version))
                         => d \in remote'["stage"].sdk
              /\ \A k \in DropdownKeys(remote["stage"]) :
                     (k # latest /\ MajorMinor(k) # MajorMinor(last'.version))
                         => k \in DropdownKeys(remote'["stage"])
       /\ last'.op = "deploy_to_prod" => remote'["stage"] = remote["stage"]]_vars

\* every dropdown key has its sdk/<key> directory and every sdk/<version>
\* directory its dropdown
TreeConsistent(tree) == DropdownKeys(tree) = tree.sdk

\* C27: a stage deploy that starts from consistent branches pushes a
\* consistent state: a directory sdk/<key> for every dropdown key of
\* docs.json and a dropdown for every sdk/<version> directory
C27_ManifestMatchesTree ==
    [][(/\ StageDeployStep
        /\ TreeConsistent(remote["stage"]) /\ TreeConsistent(remote["main"]))
           => TreeConsistent(remote'["stage"])]_vars

\* the characters of a string
Chars(str) == {str[i] : i \in 1..Len(str)}

\* operator p's deploy is past the check of docs/target on stage or prod
VersionComputed(p) ==
    /\ invocations[p].status # "idle"
    /\ invocations[p].branch # "dev"
    /\ invocations[p].target_exists

\* C29: deploy() on stage/prod publishes X.Y.Z as vX.Y.Z and a version of
\* more than three components as vX.Y.(Z-1); with Z = 0 it stops on the
\* assertion with nothing cloned, assembled or pushed, and no version with
\* a negative patch number is on a branch
C29_PublishedVersion ==
    /\ \A p \in Operators :
          VersionComputed(p) =>
              LET inv == invocations[p]
                  parts == Split(inv.pxt_version, ".")
              IN  /\ Len(parts) = 3 => inv.version = <<"v">> \o inv.pxt_version
                  /\ (Len(parts) > 3 /\ ToInt(parts[3]) > 0)
                        => inv.version =
                             <<"v">> \o Join(<<parts[1], parts[2],
                                               ToStr(ToInt(parts[3]) - 1)>>, ".")
                  /\ inv.pxt_version = pxt_0_4_18_dev => inv.version = v0_4_17
                  /\ inv.pxt_version = pxt_0_5_1_dev => inv.version = v0_5_0
                  /\ (Len(parts) > 3 /\ ToInt(parts[3]) = 0)
                        => /\ inv.status = "failed"
                           /\ inv.error = "AssertionError"
                           /\ ~inv.cloned /\ ~inv.pushed
                           /\ inv.base = NoTree /\ inv.tree = NoTree
    /\ \A b \in Branches :
          \A k \in remote[b].sdk \cup DropdownKeys(remote[b]) : "-" \notin Chars(k)

\* one operator's deploy of 0.5.0.dev1 stopped on the assertion, the
\* other's deploy of 0.4.18.dev15 pushed v0.4.17 to stage
C29_Witness ==
    \E p, q \in Operators :
        /\ VersionComputed(p) /\ invocations[p].pxt_version = pxt_0_5_0_dev
        /\ invocations[p].status = "failed"
        /\ VersionComputed(q) /\ invocations[q].pxt_version = pxt_0_4_18_dev
        /\ invocations[q].pushed
        /\ v0_4_17 \in remote["stage"].sdk

\* operator p's deploy has assembled its tree
Assembled(p) == invocations[p].status \in {"assembled", "done"}

\* C28: deploys to one branch are not serialized: the manifest an
\* invocation assembles and pushes is merged from the head it cloned, with
\* no dropdown that came to the remote after its clone, and nothing keeps
\* another invocation from cloning before it pushed
C28_MergedFromOwnClone ==
    \A p \in Operators :
        Assembled(p) =>
            /\ DropdownKeys(invocations[p].tree)
                  \subseteq DropdownKeys(invocations[p].base)
                            \cup {latest, invocations[p].version}
            /\ invocations[p].branch # "dev"
                  => invocations[p].tree.sdk
                        = invocations[p].base.sdk \cup {latest, invocations[p].version}

\* both operators cloned the same head of stage before either pushed, and
\* each assembled a manifest without the other's dropdown
C28_Witness ==
    \E p, q \in Operators :
        /\ p # q
        /\ invocations[p].status = "assembled" /\ invocations[q].status = "assembled"
        /\ invocations[p].branch = "stage" /\ invocations[q].branch = "stage"
        /\ invocations[p].base = invocations[q].base
        /\ invocations[p].base = remote["stage"]
        /\ invocations[p].version # invocations[q].version
        /\ invocations[q].version \notin DropdownKeys(invocations[p].tree)
        /\ invocations[p].version \notin DropdownKeys(invocations[q].tree)

\* the MDX of notebook n exists and is not older than the notebook
UpToDate(n) == n \in DOMAIN files.output /\ ~NeedsConversion(files, n)

\* C30: a run of convert_notebooks_to_dir that converts some notebooks
\* leaves the MDX file of every notebook that needed no conversion
\* byte-identical
C30_UpToDatePagesUntouched ==
    [][(last'.op = "convert_notebooks_to_dir" /\ files'.now # files.now)
          => \A n \in NotebookNames :
                 UpToDate(n) => files'.output[n].content = files.output[n].content]_vars

====
